---- MODULE Spec2Model ----
(***************************************************************************)
(* A model of the MiniScript (pocketlang) core: the value/heap layer of    *)
(* src/src/var.c (Map, mark phase, temp-root discipline) and the single    *)
(* pass compiler of src/src/compiler.c (lexer, Pratt parser, emitter).     *)
(*                                                                         *)
(* Each subsystem has its own specification (SpecMap, SpecGC, ...), all    *)
(* over one set of variables; a specification leaves the variables of the  *)
(* other subsystems at their initial values.                               *)
(***************************************************************************)
EXTENDS Integers, Sequences, FiniteSets, TLC

VARIABLES
  map,        \* the Map object: [capacity, count, entries]
  ref,        \* reference key-value map the Map is compared with
  mapRet,     \* what the last Map operation returned, and what the reference returns
  mapAssert,  \* TRUE once an ASSERT of var.c failed inside a Map operation
  onlySets,   \* TRUE while only mapSet has been applied to the Map
  mapOps,     \* number of Map operations applied after the initial fill
  mapFillLeft, \* number of mapSet calls of the initial fill still to come
  gcHeap,     \* the objects of the VM: object |-> its fields
  gcRoots,    \* the root objects of this collection
  gcRootsLeft, \* the roots not yet grayed
  gcMarked,   \* the objects whose is_marked is set
  gcGray,     \* vm->gray_list[0 .. gray_list_count-1]
  gcWild,     \* TRUE once the mark phase dereferenced a pointer that is no object
  rtOp,       \* the operation in progress, <<>> when none
  rt,         \* its remaining steps, locals, and the heap and temp-roots stack
  cs,         \* the Compiler of compileSource, with its Parser and its Script
  csPhase,    \* "idle", "compiling", "done", "aborted" or "crashed"
  csDebug,    \* TRUE if the build checks ASSERT
  pool,       \* a Compiler whose Script receives constants, with the calls made
  sc,         \* a Compiler whose blocks are entered and exited, with the last call
  s7,         \* scenario S7: the Map, the three colliding keys and the step reached
  strs        \* the Strings made by newString and stringFormat

mapVars == <<map, ref, mapRet, mapAssert, onlySets, mapOps, mapFillLeft>>
gcVars == <<gcHeap, gcRoots, gcRootsLeft, gcMarked, gcGray, gcWild>>

rootVars == <<rtOp, rt>>

compileVars == <<cs, csPhase, csDebug>>

constVars == <<pool>>

scopeVars == <<sc>>

s7Vars == <<s7>>

strVars == <<strs>>

vars == <<mapVars, gcVars, rootVars, compileVars, constVars, scopeVars, s7Vars, strVars>>

(***************************************************************************)
(* Values.  A Var is modelled as an integer: the four singleton values are *)
(* negative, every non-negative integer is a number (its own bits).        *)
(***************************************************************************)
VAR_NULL == -4
VAR_UNDEFINED == -3
VAR_FALSE == -2
VAR_TRUE == -1

\* Object references: VAR_OBJ(o) for the object o >= 1; NULL is no object.
OBJ_BASE == 1000000
NULL == 0
VAR_OBJ(o) == OBJ_BASE + o
IS_OBJ(v) == v >= OBJ_BASE
AS_OBJ(v) == v - OBJ_BASE

IS_UNDEF(v) == v = VAR_UNDEFINED
IS_BOOL(v) == v = VAR_FALSE \/ v = VAR_TRUE
IS_TRUE(v) == v = VAR_TRUE

\* Map.count is a uint32_t.  A value c >= 0 stands for itself and c < 0 for
\* 2^32 + c, the value the counter wraps to when it is decremented below 0
\* (2^32 itself is beyond the integers of the model checker).
u32Inc(c) == c + 1
u32Dec(c) == c - 1
\* a > s in uint32_t arithmetic, for a small s >= 0.
u32Greater(a, s) == a < 0 \/ a > s
\* (c / d) * 100 in uint32_t arithmetic stays far above any capacity of the
\* model when c has wrapped.
u32DivTimes100(c, d) == IF c < 0 THEN 1431655704 ELSE (c \div d) * 100

MAP_LOAD_PERCENT == 75
GROW_FACTOR == 2
MIN_CAPACITY == 8

\* Bounds of the Map model.
NumKeys == 9
NumVals == 2

Keys == 1..NumKeys
Vals == 101..(100 + NumVals)

\* isValuesSame: NaN-tagged values are the same when their bits are.
isValuesSame(v1, v2) == v1 = v2

\* isValuesEqual on the non-object values of the Map model.
isValuesEqual(v1, v2) == isValuesSame(v1, v2)

\* _hashVar of a key.  Odd keys collide modulo 8 (a stubbed hash, as in
\* scenario S7), even keys hash to themselves.
hashVar(k) == IF k % 2 = 1 THEN 5 + 8 * k ELSE k

Entry(k, v) == [key |-> k, value |-> v]

\* No entry: the NULL MapEntry pointer.
NullSlot == -1

(***************************************************************************)
(* _mapFindEntry.  The do-while probe loop, one call per iteration.        *)
(* Result: found, slot (index of *result, NullSlot when it is left NULL),  *)
(* bad (an ASSERT failed on the way).                                      *)
(***************************************************************************)
RECURSIVE mapProbe(_, _, _, _, _, _)
mapProbe(m, key, start, index, tombstone, bad) ==
  LET entry == m.entries[index]
      next == (index + 1) % m.capacity
  IN IF IS_UNDEF(entry.key)
       THEN IF IS_TRUE(entry.value)
              THEN LET t == IF tombstone = NullSlot THEN index ELSE tombstone
                   IN IF next # start
                        THEN mapProbe(m, key, start, next, t, bad)
                        ELSE [found |-> FALSE, slot |-> t, bad |-> bad]
              ELSE [found |-> FALSE,
                    slot |-> IF tombstone # NullSlot THEN tombstone ELSE index,
                    bad |-> bad \/ ~IS_BOOL(entry.value)]
       ELSE IF isValuesEqual(entry.key, key)
              THEN [found |-> TRUE, slot |-> index, bad |-> bad]
              ELSE IF next # start
                     THEN mapProbe(m, key, start, next, tombstone, bad)
                     ELSE [found |-> FALSE, slot |-> tombstone,
                           bad |-> bad \/ tombstone = NullSlot]

mapFindEntry(m, key) ==
  IF m.capacity = 0
    THEN [found |-> FALSE, slot |-> NullSlot, bad |-> FALSE]
    ELSE mapProbe(m, key, hashVar(key) % m.capacity,
                  hashVar(key) % m.capacity, NullSlot, FALSE)

\* _mapInsertEntry: [m, added, bad].  A NULL result entry (a table with
\* neither the key nor a free slot) is written through: the store is lost.
mapInsertEntry(m, key, value) ==
  LET r == mapFindEntry(m, key)
  IN IF m.capacity = 0 \/ r.slot = NullSlot
       THEN [m |-> m, added |-> ~r.found, bad |-> TRUE]
       ELSE IF r.found
              THEN [m |-> [m EXCEPT !.entries[r.slot].value = value],
                    added |-> FALSE, bad |-> r.bad]
              ELSE [m |-> [m EXCEPT !.entries[r.slot] = Entry(key, value)],
                    added |-> TRUE, bad |-> r.bad]

\* What a slot of a freshly allocated entries array may hold: realloc does
\* not initialise memory.  Zero bits are the number 0.0; a recycled block
\* holds what a former entries array or any other object held.
GarbageEntry ==
  { Entry(0, 0),
    Entry(VAR_UNDEFINED, VAR_FALSE),
    Entry(VAR_UNDEFINED, VAR_TRUE),
    Entry(VAR_UNDEFINED, VAR_NULL),
    Entry(1, 101) }

\* The initialisation loop of _mapResize: it runs capacity times and
\* writes entries[0] each time, so the slots 1..capacity-1 keep the
\* contents g of the allocated block.
mapResizeInit(capacity, g) ==
  [i \in 0..(capacity - 1) |->
     IF i = 0 THEN Entry(VAR_UNDEFINED, VAR_FALSE) ELSE g]

\* The re-insertion loop of _mapResize over the old entries i..old_capacity-1.
RECURSIVE mapReinsert(_, _, _, _, _)
mapReinsert(m, old_entries, old_capacity, i, bad) ==
  IF i >= old_capacity
    THEN [m |-> m, bad |-> bad]
    ELSE IF IS_UNDEF(old_entries[i].key)
           THEN mapReinsert(m, old_entries, old_capacity, i + 1, bad)
           ELSE LET r == mapInsertEntry(m, old_entries[i].key,
                                        old_entries[i].value)
                IN mapReinsert(r.m, old_entries, old_capacity, i + 1,
                               bad \/ r.bad)

\* _mapResize: [m, bad].
mapResize(m, capacity, g) ==
  mapReinsert([m EXCEPT !.entries = mapResizeInit(capacity, g),
                        !.capacity = capacity],
              m.entries, m.capacity, 0, FALSE)

\* mapGet: [ret, bad].
mapGet(m, key) ==
  LET r == mapFindEntry(m, key)
  IN [ret |-> IF r.found THEN m.entries[r.slot].value ELSE VAR_UNDEFINED,
      bad |-> r.bad]

\* The capacity mapSet grows to.
mapGrowCapacity(m) ==
  IF m.capacity * GROW_FACTOR < MIN_CAPACITY
    THEN MIN_CAPACITY ELSE m.capacity * GROW_FACTOR

\* mapSet: [m, bad].
mapSet(m, key, value, g) ==
  LET grown == IF u32Greater(u32Inc(m.count),
                               (m.capacity * MAP_LOAD_PERCENT) \div 100)
                 THEN mapResize(m, mapGrowCapacity(m), g)
                 ELSE [m |-> m, bad |-> FALSE]
      r == mapInsertEntry(grown.m, key, value)
  IN [m |-> IF r.added
              THEN [r.m EXCEPT !.count = u32Inc(r.m.count)]
              ELSE r.m,
      bad |-> grown.bad \/ r.bad]

\* mapClear.
mapClear(m) == [capacity |-> 0, count |-> 0, entries |-> <<>>]

\* The shrink test of mapRemoveKey, with C's integer division.
mapShouldShrink(m) ==
  /\ m.capacity > MIN_CAPACITY
  /\ m.capacity \div GROW_FACTOR > u32DivTimes100(m.count, MAP_LOAD_PERCENT)

mapShrinkCapacity(m) ==
  IF m.capacity \div GROW_FACTOR < MIN_CAPACITY
    THEN MIN_CAPACITY ELSE m.capacity \div GROW_FACTOR

\* mapRemoveKey: [m, ret, bad].
mapRemoveKey(m, key, g) ==
  LET r == mapFindEntry(m, key)
  IN IF ~r.found
       THEN [m |-> m, ret |-> VAR_NULL, bad |-> r.bad]
       ELSE LET value == m.entries[r.slot].value
                m1 == [m EXCEPT !.entries[r.slot] =
                                   Entry(VAR_UNDEFINED, VAR_TRUE),
                                !.count = u32Dec(m.count)]
            IN IF m1.count = 0
                 THEN [m |-> mapClear(m1), ret |-> value, bad |-> r.bad]
                 ELSE IF mapShouldShrink(m1)
                        THEN LET s == mapResize(m1, mapShrinkCapacity(m1), g)
                             IN [m |-> s.m, ret |-> value,
                                 bad |-> r.bad \/ s.bad]
                        ELSE [m |-> m1, ret |-> value, bad |-> r.bad]

(***************************************************************************)
(* The Map state machine: newMap, then any mapSet / mapGet / mapRemoveKey  *)
(* / mapClear.  ref is the reference map; mapRet records the value the     *)
(* last mapGet or mapRemoveKey returned (ret) and the value the reference  *)
(* map returns for the same call (expect).  A failed ASSERT aborts the     *)
(* program: no operation follows it.                                       *)
(***************************************************************************)
NoRet == [ret |-> VAR_UNDEFINED, expect |-> VAR_UNDEFINED]

\* Largest capacity the model lets the entries array grow to.
MaxCapacity == 16

\* Number of Map operations a behaviour applies after the initial fill.
MaxMapOps == 3

\* newMap.
newMap == [capacity |-> 0, count |-> 0, entries |-> <<>>]

\* A behaviour starts with a new Map.  It either applies any operations at
\* once, or first fills the Map with mapSet(1, 101), mapSet(2, 101), ... up
\* to one key below the load cap of the minimum capacity.
MapStart ==
  /\ map = newMap
  /\ ref = [k \in Keys |-> VAR_UNDEFINED]
  /\ mapRet = NoRet
  /\ mapAssert = FALSE
  /\ onlySets = TRUE
  /\ mapOps = 0
  /\ mapFillLeft \in {0, NumKeys - 1}

\* One mapSet call of the initial fill.
MapFill ==
  /\ ~mapAssert
  /\ mapFillLeft > 0
  /\ \E g \in GarbageEntry :
       LET k == NumKeys - mapFillLeft
           r == mapSet(map, k, 101, g)
       IN /\ map' = r.m
          /\ ref' = [ref EXCEPT ![k] = 101]
          /\ mapAssert' = r.bad
  /\ mapFillLeft' = mapFillLeft - 1
  /\ UNCHANGED <<mapRet, onlySets, mapOps>>

MapSet(k, v) ==
  /\ ~mapAssert
  /\ mapFillLeft = 0
  /\ mapOps < MaxMapOps
  /\ mapOps' = mapOps + 1
  /\ UNCHANGED mapFillLeft
  /\ \E g \in GarbageEntry :
       LET r == mapSet(map, k, v, g)
       IN /\ r.m.capacity <= MaxCapacity
          /\ map' = r.m
          /\ ref' = [ref EXCEPT ![k] = v]
          /\ mapRet' = NoRet
          /\ mapAssert' = r.bad
          /\ UNCHANGED onlySets

MapGet(k) ==
  /\ ~mapAssert
  /\ mapFillLeft = 0
  /\ mapOps < MaxMapOps
  /\ mapOps' = mapOps + 1
  /\ UNCHANGED mapFillLeft
  /\ LET r == mapGet(map, k)
     IN /\ mapRet' = [ret |-> r.ret, expect |-> ref[k]]
        /\ mapAssert' = r.bad
        /\ UNCHANGED <<map, ref, onlySets>>

MapRemoveKey(k) ==
  /\ ~mapAssert
  /\ mapFillLeft = 0
  /\ mapOps < MaxMapOps
  /\ mapOps' = mapOps + 1
  /\ UNCHANGED mapFillLeft
  /\ \E g \in GarbageEntry :
       LET r == mapRemoveKey(map, k, g)
       IN /\ map' = r.m
          /\ ref' = [ref EXCEPT ![k] = VAR_UNDEFINED]
          /\ mapRet' = [ret |-> r.ret,
                        expect |-> IF ref[k] = VAR_UNDEFINED
                                     THEN VAR_NULL ELSE ref[k]]
          /\ mapAssert' = r.bad
          /\ onlySets' = FALSE

MapClear ==
  /\ ~mapAssert
  /\ mapFillLeft = 0
  /\ mapOps < MaxMapOps
  /\ mapOps' = mapOps + 1
  /\ UNCHANGED mapFillLeft
  /\ map.capacity > 0
  /\ map' = mapClear(map)
  /\ ref' = [k \in Keys |-> VAR_UNDEFINED]
  /\ mapRet' = NoRet
  /\ onlySets' = FALSE
  /\ UNCHANGED mapAssert

MapIdle ==
  /\ map = newMap
  /\ ref = <<>>
  /\ mapRet = NoRet
  /\ mapAssert = FALSE
  /\ onlySets = TRUE
  /\ mapOps = 0
  /\ mapFillLeft = 0

\* Slots of the entries array whose key is not undefined.
mapLiveSlots(m) ==
  {i \in 0..(m.capacity - 1) : ~IS_UNDEF(m.entries[i].key)}

(***************************************************************************)
(* The mark phase.  gcHeap maps each object to a record of its fields; an  *)
(* object is a number >= 1.  The mark state st is [marked, gray, wild].    *)
(***************************************************************************)
String == [type |-> "OBJ_STRING"]
Range == [type |-> "OBJ_RANGE"]
List(elements) == [type |-> "OBJ_LIST", elements |-> elements]
MapObj(m) == [type |-> "OBJ_MAP", map |-> m]
Script(globals, global_names, literals, functions, function_names, names, body) ==
  [type |-> "OBJ_SCRIPT", globals |-> globals, global_names |-> global_names,
   literals |-> literals, functions |-> functions,
   function_names |-> function_names, names |-> names, body |-> body]
Function(owner) == [type |-> "OBJ_FUNC", owner |-> owner]
Fiber(func, stack, frames, error) ==
  [type |-> "OBJ_FIBER", func |-> func, stack |-> stack, frames |-> frames,
   error |-> error]

\* grayObject.
grayObject(st, o) ==
  IF o = NULL \/ o \in st.marked
    THEN st
    ELSE [st EXCEPT !.marked = @ \cup {o}, !.gray = Append(@, o)]

\* grayValue.
grayValue(st, v) == IF ~IS_OBJ(v) THEN st ELSE grayObject(st, AS_OBJ(v))

\* grayVarBuffer, from element i on.
RECURSIVE grayVarBuffer(_, _, _)
grayVarBuffer(st, data, i) ==
  IF i > Len(data) THEN st
  ELSE grayVarBuffer(grayValue(st, data[i]), data, i + 1)

\* grayStringBuffer, grayFunctionBuffer, grayNameTable: buffers of object
\* pointers, from element i on.
RECURSIVE grayObjectBuffer(_, _, _)
grayObjectBuffer(st, data, i) ==
  IF i > Len(data) THEN st
  ELSE grayObjectBuffer(grayObject(st, data[i]), data, i + 1)

\* grayObject((Object*)v) of blackenObject's OBJ_MAP case: the Var is cast
\* to a pointer without IS_OBJ.  The bits of an object reference are taken
\* to give the object; the bits of any other value are no object.
grayCast(st, v) ==
  IF IS_OBJ(v) THEN grayObject(st, AS_OBJ(v)) ELSE [st EXCEPT !.wild = TRUE]

\* The loop of blackenObject's OBJ_MAP case, from slot i on: it runs over
\* the slots below map->count.
RECURSIVE blackenMapEntries(_, _, _)
blackenMapEntries(st, m, i) ==
  IF i >= m.count THEN st
  ELSE IF IS_UNDEF(m.entries[i].key)
         THEN blackenMapEntries(st, m, i + 1)
         ELSE blackenMapEntries(
                grayCast(grayCast(st, m.entries[i].key), m.entries[i].value),
                m, i + 1)

\* The call frames loop of blackenObject's OBJ_FIBER case.
RECURSIVE blackenFrames(_, _, _, _)
blackenFrames(st, heap, frames, i) ==
  IF i > Len(frames) THEN st
  ELSE blackenFrames(
         grayObject(grayObject(st, frames[i]), heap[frames[i]].owner),
         heap, frames, i + 1)

\* blackenObject.
blackenObject(st, heap, obj) ==
  LET o == heap[obj]
  IN CASE o.type = "OBJ_STRING" -> st
       [] o.type = "OBJ_RANGE" -> st
       [] o.type = "OBJ_LIST" -> grayVarBuffer(st, o.elements, 1)
       [] o.type = "OBJ_MAP" -> blackenMapEntries(st, o.map, 0)
       [] o.type = "OBJ_SCRIPT" ->
            LET s1 == grayVarBuffer(st, o.globals, 1)
                s2 == grayObjectBuffer(s1, o.global_names, 1)
                s3 == grayVarBuffer(s2, o.literals, 1)
                s4 == grayObjectBuffer(s3, o.functions, 1)
                s5 == grayObjectBuffer(s4, o.function_names, 1)
                s6 == grayObjectBuffer(s5, o.names, 1)
            IN grayObject(s6, o.body)
       [] o.type = "OBJ_FUNC" -> grayObject(st, o.owner)
       [] o.type = "OBJ_FIBER" ->
            LET s1 == grayObject(st, o.func)
                s2 == grayVarBuffer(s1, o.stack, 1)
                s3 == blackenFrames(s2, heap, o.frames, 1)
            IN grayObject(s3, o.error)

\* The objects among the values of a sequence of Vars.
objectsOf(data) == {AS_OBJ(data[i]) : i \in {j \in DOMAIN data : IS_OBJ(data[j])}}

\* The elements of a buffer of object pointers.
pointersOf(data) == {data[i] : i \in DOMAIN data} \ {NULL}

\* The objects an object refers to: what the collector has to keep alive
\* with it.
refsOf(heap, obj) ==
  LET o == heap[obj]
  IN CASE o.type = "OBJ_STRING" -> {}
       [] o.type = "OBJ_RANGE" -> {}
       [] o.type = "OBJ_LIST" -> objectsOf(o.elements)
       [] o.type = "OBJ_MAP" ->
            UNION { {AS_OBJ(v) : v \in {w \in {o.map.entries[i].key,
                                               o.map.entries[i].value} :
                                        IS_OBJ(w)}}
                    : i \in mapLiveSlots(o.map) }
       [] o.type = "OBJ_SCRIPT" ->
            objectsOf(o.globals) \cup pointersOf(o.global_names)
              \cup objectsOf(o.literals) \cup pointersOf(o.functions)
              \cup pointersOf(o.function_names) \cup pointersOf(o.names)
              \cup ({o.body} \ {NULL})
       [] o.type = "OBJ_FUNC" -> {o.owner} \ {NULL}
       [] o.type = "OBJ_FIBER" ->
            ({o.func, o.error} \ {NULL}) \cup objectsOf(o.stack)
              \cup pointersOf(o.frames)
              \cup ({heap[o.frames[i]].owner : i \in DOMAIN o.frames} \ {NULL})

\* The objects reachable from the set S.
RECURSIVE reachable(_, _)
reachable(heap, S) ==
  LET T == S \cup UNION {refsOf(heap, o) : o \in S}
  IN IF T = S THEN S ELSE reachable(heap, T)

(***************************************************************************)
(* The heaps of the mark-phase model.  Objects 1..3 are Strings, 4 a List, *)
(* 5 a Map, 6 a Range, 7 a Script with body 8 and function 9, 10 a Fiber.  *)
(* The Map is what mapSet calls on a new Map produce for the given pairs.  *)
(***************************************************************************)
\* The Map after mapSet of the pairs i..Len(pairs): [m, bad].
RECURSIVE mapOfPairs(_, _, _, _)
mapOfPairs(r, pairs, i, g) ==
  IF i > Len(pairs) \/ r.bad THEN r
  ELSE mapOfPairs(mapSet(r.m, pairs[i][1], pairs[i][2], g), pairs, i + 1, g)

\* Key/value pairs of the Map of a heap: String and number keys.
GcMapPairs ==
  { <<>>,
    << <<VAR_OBJ(1), VAR_OBJ(2)>> >>,
    << <<VAR_OBJ(2), VAR_OBJ(4)>> >>,
    << <<VAR_OBJ(2), VAR_OBJ(3)>>, <<VAR_OBJ(1), VAR_OBJ(6)>> >>,
    << <<2, VAR_OBJ(3)>> >> }

\* Elements of the List of a heap.
GcListElements ==
  { <<>>, <<VAR_OBJ(1)>>, <<101, VAR_OBJ(5), VAR_NULL>>, <<VAR_OBJ(4)>> }

\* Value stack slices of the Fiber of a heap.
GcFiberStacks == { <<>>, <<VAR_OBJ(4), 102>>, <<VAR_OBJ(5)>> }

GcHeap(pairs, g, elements, stack, error) ==
  << String, String, String,
     List(elements),
     MapObj(mapOfPairs([m |-> newMap, bad |-> FALSE], pairs, 1, g).m),
     Range,
     Script(<<VAR_OBJ(4), VAR_NULL>>, <<2>>, <<VAR_OBJ(1), 101>>, <<8, 9>>,
            <<3, 3>>, <<3>>, 8),
     Function(7), Function(7),
     Fiber(9, stack, <<9>>, error) >>

GcObjects == 1..10

\* The VM before a collection: no object is marked, the gray list is empty.
GcStart ==
  /\ \E pairs \in GcMapPairs, g \in GarbageEntry,
        elements \in GcListElements, stack \in GcFiberStacks,
        error \in {NULL, 3} :
       /\ ~mapOfPairs([m |-> newMap, bad |-> FALSE], pairs, 1, g).bad
       /\ gcHeap = GcHeap(pairs, g, elements, stack, error)
  /\ gcRoots \in {{4}, {5}, {7}, {9}, {10}, {5, 6}}
  /\ gcRootsLeft = gcRoots
  /\ gcMarked = {}
  /\ gcGray = <<>>
  /\ gcWild = FALSE

GcIdle ==
  /\ gcHeap = <<>>
  /\ gcRoots = {}
  /\ gcRootsLeft = {}
  /\ gcMarked = {}
  /\ gcGray = <<>>
  /\ gcWild = FALSE

\* The collector grays a root.
GrayRoot(o) ==
  /\ ~gcWild
  /\ o \in gcRootsLeft
  /\ LET st == grayObject([marked |-> gcMarked, gray |-> gcGray,
                           wild |-> gcWild], o)
     IN /\ gcMarked' = st.marked
        /\ gcGray' = st.gray
  /\ gcRootsLeft' = gcRootsLeft \ {o}
  /\ UNCHANGED <<gcHeap, gcRoots, gcWild>>

\* One iteration of blackenObjects: pop the last gray object and blacken it.
BlackenObjects ==
  /\ ~gcWild
  /\ gcRootsLeft = {}
  /\ Len(gcGray) > 0
  /\ LET gray == gcGray[Len(gcGray)]
         st == blackenObject([marked |-> gcMarked,
                              gray |-> SubSeq(gcGray, 1, Len(gcGray) - 1),
                              wild |-> gcWild], gcHeap, gray)
     IN /\ gcMarked' = st.marked
        /\ gcGray' = st.gray
        /\ gcWild' = st.wild
  /\ UNCHANGED <<gcHeap, gcRoots, gcRootsLeft>>

\* blackenObjects has returned.
GcDone == gcRootsLeft = {} /\ gcGray = <<>> /\ ~gcWild

(***************************************************************************)
(* Allocation and the temp-roots stack.  An operation is the sequence of   *)
(* its steps that matter to the collector, in the order of its code:       *)
(*   ALLOCATE a      allocate an object into the local a                   *)
(*   vmRealloc       allocate memory that is no object (a buffer, an Fn)   *)
(*   vmPushTempRef a, vmPopTempRef                                         *)
(*   store a b       store a reference to the object b in the object a     *)
(*   clear a b       overwrite the reference to b held by a                *)
(*   read a          read a field of the object a                          *)
(*   assign a b      a = b, for two locals                                 *)
(*   null a          a = a value that is no object                         *)
(* A collection may run at ALLOCATE and vmRealloc, before the memory is    *)
(* handed out.  It frees the objects reachable neither from the roots nor  *)
(* from the temp-roots stack.                                              *)
(***************************************************************************)
Ins(op, a, b) == [op |-> op, a |-> a, b |-> b]

\* nameTableAdd of a name that is not in the table: the String is
\* allocated and appended to the table of the Script in the local owner.
nameTableAdd(owner, name) ==
  << Ins("ALLOCATE", name, ""), Ins("store", owner, name) >>

\* newFunction with an owner; fresh tells if the name is new to
\* owner->function_names.
newFunctionCode(owner, func, name, fresh) ==
  << Ins("ALLOCATE", func, ""),
     Ins("vmPushTempRef", func, ""),
     Ins("vmRealloc", "", ""),
     Ins("store", owner, func) >>
  \o (IF fresh THEN nameTableAdd(owner, name) ELSE <<>>)
  \o << Ins("vmPopTempRef", "", ""),
        Ins("read", name, ""),
        Ins("read", func, ""),
        Ins("vmRealloc", "", ""),
        Ins("read", func, "") >>

\* newFunction with owner == NULL, is_native.
newFunctionNativeCode(func) ==
  << Ins("ALLOCATE", func, ""), Ins("read", func, "") >>

\* newScript.
newScriptCode ==
  << Ins("ALLOCATE", "script", ""), Ins("vmPushTempRef", "script", "") >>
  \o newFunctionCode("script", "func", "name", TRUE)
  \o << Ins("store", "script", "func"), Ins("vmPopTempRef", "", "") >>

\* listInsert of an object value.
listInsertCode ==
  << Ins("vmPushTempRef", "value", ""),
     Ins("vmRealloc", "", ""),
     Ins("vmPopTempRef", "", ""),
     Ins("store", "self", "value") >>

\* listRemoveAt of an element that is an object, where the buffer shrinks.
listRemoveAtCode ==
  << Ins("vmPushTempRef", "value", ""),
     Ins("clear", "self", "value"),
     Ins("vmRealloc", "", ""),
     Ins("vmPopTempRef", "", ""),
     Ins("read", "value", "") >>

\* mapRemoveKey of a key whose value is an object, where the map shrinks.
mapRemoveKeyCode ==
  << Ins("clear", "self", "value"),
     Ins("vmPushTempRef", "value", ""),
     Ins("vmRealloc", "", ""),
     Ins("vmPopTempRef", "", ""),
     Ins("read", "value", "") >>

\* The reads of the arguments of stringFormat, from argument i on.
RECURSIVE readArgs(_, _)
readArgs(args, i) ==
  IF i > Len(args) THEN <<>>
  ELSE <<Ins("read", args[i], "")>> \o readArgs(args, i + 1)

\* stringFormat with the String arguments args: the lengths are read, the
\* result is allocated, the arguments are copied into it.
stringFormatCode(args, result) ==
  readArgs(args, 1) \o <<Ins("ALLOCATE", result, "")>> \o readArgs(args, 1)

\* toString of a String held in the local v.
toStringStringCode(v, string, result, recursive) ==
  << Ins("read", v, ""), Ins("ALLOCATE", string, "") >>
  \o (IF recursive THEN stringFormatCode(<<string>>, result) ELSE <<>>)

\* One iteration of the loop of toString's OBJ_LIST case, for an element
\* that is a String.
toStringElementCode ==
  << Ins("vmPushTempRef", "result", "") >>
  \o toStringStringCode("value", "string", "estr", TRUE)
  \o stringFormatCode(<<"result", "estr">>, "fmt")
  \o << Ins("assign", "result", "fmt"), Ins("vmPopTempRef", "", "") >>

RECURSIVE toStringElementsCode(_)
toStringElementsCode(n) ==
  IF n = 0 THEN <<>> ELSE toStringElementCode \o toStringElementsCode(n - 1)

\* toString of a List of n String elements.
toStringListCode(n) ==
  << Ins("read", "self", ""), Ins("ALLOCATE", "result", "") >>
  \o toStringElementsCode(n)
  \o stringFormatCode(<<"result">>, "fmt")

\* lexToken: previous = current, current = next, and the next token is
\* lexed; eatString of a literal with at least one character allocates its
\* buffer and the String.
lexTokenCode(isString) ==
  << Ins("assign", "previous", "current"), Ins("assign", "current", "next") >>
  \o (IF isString
        THEN << Ins("vmRealloc", "", ""), Ins("ALLOCATE", "next", "") >>
        ELSE << Ins("null", "next", "") >>)

\* exprLiteral and compilerAddConstant of a String token that is not yet in
\* the literals of the Script.
exprLiteralCode ==
  << Ins("read", "previous", ""), Ins("vmRealloc", "", ""),
     Ins("store", "self", "previous") >>

\* The statements i..n of a source of n string literals: parsePrecedence
\* lexes the token two ahead, then exprLiteral adds the constant.
RECURSIVE compileLiteralsCode(_, _)
compileLiteralsCode(i, n) ==
  IF i > n THEN <<>>
  ELSE lexTokenCode(i + 2 <= n) \o exprLiteralCode
         \o compileLiteralsCode(i + 1, n)

\* compileSource of a source of n string literals, after newScript: the
\* two initial lexToken calls, then the statements.
compileStringsCode(n) ==
  lexTokenCode(1 <= n) \o lexTokenCode(2 <= n) \o compileLiteralsCode(1, n)

\* compileFunction up to compiler->function = func; the Script of the
\* compiler is the local self.
compileFunctionCode(is_native) ==
  nameTableAdd("self", "name")
  \o (IF is_native THEN newFunctionNativeCode("func")
      ELSE newFunctionCode("self", "func", "name", FALSE))
  \o << Ins("vmPushTempRef", "func", ""),
        Ins("vmRealloc", "", ""),
        Ins("store", "self", "func"),
        Ins("vmPopTempRef", "", ""),
        Ins("read", "func", "") >>

MaxElements == 3
MaxLiterals == 4

\* The operations: [name, n], n the number of elements or literals.
RootOps ==
  { <<op, 0>> : op \in { "newScript", "newFunction", "listInsert",
                         "listRemoveAt", "mapRemoveKey", "toString",
                         "toString recursive", "compileFunction",
                         "compileFunction native" } }
    \cup { <<"toString List", n>> : n \in 0..MaxElements }
    \cup { <<"compileSource", n>> : n \in 1..MaxLiterals }

RootCode(op) ==
  CASE op[1] = "newScript" -> newScriptCode
    [] op[1] = "newFunction" -> newFunctionCode("self", "func", "name", TRUE)
    [] op[1] = "listInsert" -> listInsertCode
    [] op[1] = "listRemoveAt" -> listRemoveAtCode
    [] op[1] = "mapRemoveKey" -> mapRemoveKeyCode
    [] op[1] = "toString" ->
         toStringStringCode("value", "string", "estr", FALSE)
    [] op[1] = "toString recursive" ->
         toStringStringCode("value", "string", "estr", TRUE)
    [] op[1] = "toString List" -> toStringListCode(op[2])
    [] op[1] = "compileSource" -> compileStringsCode(op[2])
    [] op[1] = "compileFunction" -> compileFunctionCode(FALSE)
    [] op[1] = "compileFunction native" -> compileFunctionCode(TRUE)

RootLocals ==
  { "self", "value", "script", "func", "name", "string", "estr", "result",
    "fmt", "previous", "current", "next" }

\* Objects 1 and 2 exist when an operation is called: 1 is its self (a
\* List, a Map, the Script of the compiler), reachable from a root; 2 is
\* its value argument.  listInsert gets a value nothing refers to yet, the
\* other operations one that self refers to.
RootCallState(op) ==
  [prog |-> RootCode(op),
   locals |-> [n \in RootLocals |->
                 IF n = "self" THEN 1 ELSE IF n = "value" THEN 2 ELSE NULL],
   temp |-> <<>>,
   refs |-> IF op[1] = "listInsert" THEN {} ELSE {<<1, 2>>},
   count |-> 2,
   freed |-> {},
   dangling |-> FALSE]

\* The objects reachable from the set S along the references refs.
RECURSIVE rootReach(_, _)
rootReach(refs, S) ==
  LET T == S \cup {e[2] : e \in {f \in refs : f[1] \in S}}
  IN IF T = S THEN S ELSE rootReach(refs, T)

\* The objects a collection keeps: those reachable from the root (the
\* object 1) and from the temp-roots stack.
rootKept(st) ==
  rootReach(st.refs, {1} \cup {st.temp[i] : i \in DOMAIN st.temp})

\* A collection.
rootCollect(st) ==
  [st EXCEPT !.freed = @ \cup ((1..st.count) \ rootKept(st))]

\* The objects an instruction touches.
rootTouched(locals, i) ==
  CASE i.op \in {"vmPushTempRef", "read"} -> {locals[i.a]} \ {NULL}
    [] i.op \in {"store", "clear"} -> {locals[i.a], locals[i.b]} \ {NULL}
    [] OTHER -> {}

\* One instruction that allocates nothing.
rootExec(st, i) ==
  LET rest == [st EXCEPT !.prog = Tail(@)]
  IN CASE i.op = "vmPushTempRef" ->
            [rest EXCEPT !.temp = Append(@, st.locals[i.a])]
       [] i.op = "vmPopTempRef" ->
            [rest EXCEPT !.temp = SubSeq(@, 1, Len(@) - 1)]
       [] i.op = "store" ->
            [rest EXCEPT !.refs = @ \cup {<<st.locals[i.a], st.locals[i.b]>>}]
       [] i.op = "clear" ->
            [rest EXCEPT !.refs = @ \ {<<st.locals[i.a], st.locals[i.b]>>}]
       [] i.op = "read" -> rest
       [] i.op = "assign" -> [rest EXCEPT !.locals[i.a] = st.locals[i.b]]
       [] i.op = "null" -> [rest EXCEPT !.locals[i.a] = NULL]

\* The operation runs up to its next allocation, to its end, or to the
\* first touch of a freed object.
RECURSIVE rootRun(_)
rootRun(st) ==
  IF st.prog = <<>> \/ st.dangling THEN st
  ELSE LET i == Head(st.prog)
       IN IF i.op \in {"ALLOCATE", "vmRealloc"} THEN st
          ELSE IF rootTouched(st.locals, i) \cap st.freed # {}
                 THEN [st EXCEPT !.dangling = TRUE]
                 ELSE rootRun(rootExec(st, i))

\* The pending allocation, after a collection if collect.
rootAllocate(st, collect) ==
  LET i == Head(st.prog)
      s1 == IF collect THEN rootCollect(st) ELSE st
      s2 == [s1 EXCEPT !.prog = Tail(@)]
  IN IF i.op = "ALLOCATE"
       THEN [s2 EXCEPT !.count = @ + 1, !.locals[i.a] = st.count + 1]
       ELSE s2

\* The objects of now that the instructions of prog touch, from
\* instruction k on: a local that is assigned no longer holds its object.
RECURSIVE rootUsed(_, _, _)
rootUsed(locals, prog, k) ==
  IF k > Len(prog) THEN {}
  ELSE LET i == prog[k]
           after == CASE i.op = "ALLOCATE" -> [locals EXCEPT ![i.a] = NULL]
                      [] i.op = "null" -> [locals EXCEPT ![i.a] = NULL]
                      [] i.op = "assign" -> [locals EXCEPT ![i.a] = locals[i.b]]
                      [] OTHER -> locals
       IN rootTouched(locals, i) \cup rootUsed(after, prog, k + 1)

RootIdleState ==
  [prog |-> <<>>, locals |-> [n \in RootLocals |-> NULL], temp |-> <<>>,
   refs |-> {}, count |-> 0, freed |-> {}, dangling |-> FALSE]

RootStart ==
  /\ rtOp = <<>>
  /\ rt = RootIdleState

RootIdle == RootStart

\* An operation is called and runs to its first allocation.
RootCall(op) ==
  /\ rtOp = <<>>
  /\ rtOp' = op
  /\ rt' = rootRun(RootCallState(op))

\* The pending allocation is made and the operation runs on.
RootAllocate(collect) ==
  /\ rtOp # <<>>
  /\ rt.prog # <<>>
  /\ ~rt.dangling
  /\ rt' = rootRun(rootAllocate(rt, collect))
  /\ UNCHANGED rtOp

\* The operation returns.
RootReturn ==
  /\ rtOp # <<>>
  /\ rt.prog = <<>>
  /\ ~rt.dangling
  /\ rtOp' = <<>>
  /\ rt' = RootIdleState

(***************************************************************************)
(* The lexer.  A source is a sequence of characters that ends with NUL; a  *)
(* pointer into it is an index.  The record c holds the fields of the      *)
(* Compiler and of its Parser, the Script under construction and what the  *)
(* front end allocated.                                                    *)
(***************************************************************************)
NUL == "NUL"

Digits == {"0", "1", "2", "3", "4", "5", "6", "7", "8", "9"}

Letters ==
  {"a", "b", "c", "d", "e", "f", "g", "h", "i", "j", "k", "l", "m", "n", "o",
   "p", "q", "r", "s", "t", "u", "v", "w", "x", "y", "z", "_",
   "A", "B", "F", "M", "N", "O", "R", "S"}

utilIsDigit(ch) == ch \in Digits

utilIsName(ch) == ch \in Letters

\* _keywords.
Keywords ==
  << [identifier |-> <<"i", "m", "p", "o", "r", "t">>, tk_type |-> "TK_IMPORT"],
     [identifier |-> <<"e", "n", "u", "m">>, tk_type |-> "TK_ENUM"],
     [identifier |-> <<"d", "e", "f">>, tk_type |-> "TK_DEF"],
     [identifier |-> <<"n", "a", "t", "i", "v", "e">>, tk_type |-> "TK_NATIVE"],
     [identifier |-> <<"e", "n", "d">>, tk_type |-> "TK_END"],
     [identifier |-> <<"n", "u", "l", "l">>, tk_type |-> "TK_NULL"],
     [identifier |-> <<"s", "e", "l", "f">>, tk_type |-> "TK_SELF"],
     [identifier |-> <<"i", "s">>, tk_type |-> "TK_IS"],
     [identifier |-> <<"i", "n">>, tk_type |-> "TK_IN"],
     [identifier |-> <<"a", "n", "d">>, tk_type |-> "TK_AND"],
     [identifier |-> <<"o", "r">>, tk_type |-> "TK_OR"],
     [identifier |-> <<"n", "o", "t">>, tk_type |-> "TK_NOT"],
     [identifier |-> <<"t", "r", "u", "e">>, tk_type |-> "TK_TRUE"],
     [identifier |-> <<"f", "a", "l", "s", "e">>, tk_type |-> "TK_FALSE"],
     [identifier |-> <<"d", "o">>, tk_type |-> "TK_DO"],
     [identifier |-> <<"w", "h", "i", "l", "e">>, tk_type |-> "TK_WHILE"],
     [identifier |-> <<"f", "o", "r">>, tk_type |-> "TK_FOR"],
     [identifier |-> <<"i", "f">>, tk_type |-> "TK_IF"],
     [identifier |-> <<"e", "l", "i", "f">>, tk_type |-> "TK_ELIF"],
     [identifier |-> <<"e", "l", "s", "e">>, tk_type |-> "TK_ELSE"],
     [identifier |-> <<"b", "r", "e", "a", "k">>, tk_type |-> "TK_BREAK"],
     [identifier |-> <<"c", "o", "n", "t", "i", "n", "u", "e">>, tk_type |-> "TK_CONTINUE"],
     [identifier |-> <<"r", "e", "t", "u", "r", "n">>, tk_type |-> "TK_RETURN"],
     [identifier |-> <<"B", "o", "o", "l">>, tk_type |-> "TK_BOOL_T"],
     [identifier |-> <<"N", "u", "m">>, tk_type |-> "TK_NUM_T"],
     [identifier |-> <<"S", "t", "r", "i", "n", "g">>, tk_type |-> "TK_STRING_T"],
     [identifier |-> <<"A", "r", "r", "a", "y">>, tk_type |-> "TK_ARRAY_T"],
     [identifier |-> <<"M", "a", "p">>, tk_type |-> "TK_MAP_T"],
     [identifier |-> <<"R", "a", "n", "g", "e">>, tk_type |-> "TK_RANGE_T"],
     [identifier |-> <<"O", "b", "j", "e", "c", "t">>, tk_type |-> "TK_OBJ_T"],
     [identifier |-> <<"F", "u", "n", "c", "t", "i", "o", "n">>, tk_type |-> "TK_FUNC_T"] >>

\* The token type of a one-character token; "" for any other character.
OneCharToken(ch) ==
  CASE ch = "," -> "TK_COMMA" [] ch = ":" -> "TK_COLLON"
    [] ch = ";" -> "TK_SEMICOLLON" [] ch = "#" -> "TK_HASH"
    [] ch = "(" -> "TK_LPARAN" [] ch = ")" -> "TK_RPARAN"
    [] ch = "[" -> "TK_LBRACKET" [] ch = "]" -> "TK_RBRACKET"
    [] ch = "{" -> "TK_LBRACE" [] ch = "}" -> "TK_RBRACE"
    [] ch = "%" -> "TK_PERCENT" [] ch = "~" -> "TK_TILD"
    [] ch = "&" -> "TK_AMP" [] ch = "|" -> "TK_PIPE"
    [] ch = "^" -> "TK_CARET" [] ch = "\n" -> "TK_LINE"
    [] OTHER -> ""

\* The arguments of setNextTwoCharToken for the first character ch:
\* <<c, one, two>>; <<>> for any other character.
TwoCharToken(ch) ==
  CASE ch = "." -> <<".", "TK_DOT", "TK_DOTDOT">>
    [] ch = "=" -> <<"=", "TK_EQ", "TK_EQEQ">>
    [] ch = "!" -> <<"=", "TK_NOT", "TK_NOTEQ">>
    [] ch = "+" -> <<"=", "TK_PLUS", "TK_PLUSEQ">>
    [] ch = "-" -> <<"=", "TK_MINUS", "TK_MINUSEQ">>
    [] ch = "*" -> <<"=", "TK_STAR", "TK_STAREQ">>
    [] ch = "/" -> <<"=", "TK_FSLASH", "TK_DIVEQ">>
    [] OTHER -> <<>>

\* A Token.
Token(type, start, length, line, value) ==
  [type |-> type, start |-> start, length |-> length, line |-> line,
   value |-> value]

\* parser->previous and parser->current before the first lexToken: parserInit
\* leaves them uninitialized.
UninitToken == Token("uninitialized", NULL, 0, 0, VAR_UNDEFINED)

\* reportError: has_errors is set, ASSERT(false) follows, the error callback
\* of the host is not called.
reportError(c, line, msg) ==
  [c EXCEPT !.has_errors = TRUE,
            !.asserts = @ + 1,
            !.errors = Append(@, <<msg, line>>)]

\* lexError.
lexError(c, msg) == reportError(c, c.current_line, msg)

\* parseError.
parseError(c, msg) ==
  IF c.previous.type = "TK_ERROR" THEN c
  ELSE reportError(c, c.previous.line, msg)

\* The character at the index i of the source.  A read past the NUL gives
\* what the memory after the source holds: c.garbage.char in the first
\* byte, NUL in the bytes after it.
charAt(c, i) ==
  IF i <= Len(c.source) THEN c.source[i]
  ELSE IF i = Len(c.source) + 1 THEN c.garbage.char
  ELSE NUL

\* peekChar.
peekChar(c) == charAt(c, c.current_char)

\* peekNextChar.
peekNextChar(c) ==
  IF peekChar(c) = NUL THEN NUL ELSE charAt(c, c.current_char + 1)

\* eatChar; the character it returns is peekChar of the state before.
eatChar(c) ==
  [c EXCEPT !.current_char = @ + 1,
            !.current_line = IF peekChar(c) = "\n" THEN @ + 1 ELSE @,
            !.overrun = @ \/ c.current_char > Len(c.source)]

\* matchChar: [c, ret].
matchChar(c, ch) ==
  IF peekChar(c) # ch THEN [c |-> c, ret |-> FALSE]
  ELSE [c |-> eatChar(c), ret |-> TRUE]

\* setNextToken.
setNextToken(c, type) ==
  [c EXCEPT !.next.type = type,
            !.next.start = c.token_start,
            !.next.length = c.current_char - c.token_start,
            !.next.line = c.current_line - (IF type = "TK_LINE" THEN 1 ELSE 0)]

\* setNextValueToken.
setNextValueToken(c, type, value) ==
  [setNextToken(c, type) EXCEPT !.next.value = value]

\* setNextTwoCharToken.
setNextTwoCharToken(c, ch, one, two) ==
  IF matchChar(c, ch).ret THEN setNextToken(matchChar(c, ch).c, two)
  ELSE setNextToken(c, one)

\* newString: [c, ret], ret the new String.  c.strings holds the data of the
\* Strings the front end allocated.
newString(c, text) ==
  [c |-> [c EXCEPT !.strings = Append(@, text)],
   ret |-> Len(c.strings) + 1]

\* The character an escape sequence of eatString stands for.
Escapes ==
  [e \in {"\"", "\\", "n", "r", "t"} |->
     CASE e = "n" -> "\n" [] e = "r" -> "\r" [] e = "t" -> "\t" [] OTHER -> e]

\* The loop of eatString: [c, buff].
RECURSIVE eatStringLoop(_, _)
\* The switch on the character after a backslash, the character e being
\* eaten.
eatStringEscape(c, e, buff) ==
  IF e \in DOMAIN Escapes THEN eatStringLoop(c, Append(buff, Escapes[e]))
  ELSE eatStringLoop(lexError(c, "Error: invalid escape character"), buff)

\* An iteration of the loop of eatString, the character ch being eaten.
eatStringChar(c, ch, buff) ==
  IF ch = "\"" THEN [c |-> c, buff |-> buff]
  ELSE IF ch = NUL
    THEN [c |-> [lexError(c, "Non terminated string.")
                   EXCEPT !.current_char = @ - 1],
          buff |-> buff]
  ELSE IF ch = "\\" THEN eatStringEscape(eatChar(c), peekChar(c), buff)
  ELSE eatStringLoop(c, Append(buff, ch))

eatStringLoop(c, buff) == eatStringChar(eatChar(c), peekChar(c), buff)

\* eatString after its loop: the String is made and the token is set.
eatStringToken(r) ==
  setNextValueToken(newString(r.c, r.buff).c, "TK_STRING",
                    VAR_OBJ(newString(r.c, r.buff).ret))

\* eatString.
eatString(c) == eatStringToken(eatStringLoop(c, <<>>))

\* The loop of eatName.
RECURSIVE eatNameLoop(_)
eatNameLoop(c) ==
  IF utilIsName(peekChar(c)) \/ utilIsDigit(peekChar(c))
    THEN eatNameLoop(eatChar(c))
    ELSE c

\* The search of eatName in _keywords, from keyword i on.
RECURSIVE keywordType(_, _)
keywordType(name, i) ==
  IF i > Len(Keywords) THEN "TK_NAME"
  ELSE IF Keywords[i].identifier = name THEN Keywords[i].tk_type
  ELSE keywordType(name, i + 1)

\* eatName after its loop.
eatNameToken(c) ==
  setNextToken(c, keywordType(
                    SubSeq(c.source, c.token_start, c.current_char - 1), 1))

\* eatName.
eatName(c) == eatNameToken(eatNameLoop(c))

\* while (utilIsDigit(peekChar(parser))) eatChar(parser);
RECURSIVE eatDigits(_)
eatDigits(c) == IF utilIsDigit(peekChar(c)) THEN eatDigits(eatChar(c)) ELSE c

DigitValue(ch) ==
  CASE ch = "0" -> 0 [] ch = "1" -> 1 [] ch = "2" -> 2 [] ch = "3" -> 3
    [] ch = "4" -> 4 [] ch = "5" -> 5 [] ch = "6" -> 6 [] ch = "7" -> 7
    [] ch = "8" -> 8 [] ch = "9" -> 9

\* The number of hundredths that the digits text[i..] stand for, after the
\* integer part acc; seen tells how many digits after the '.' were read (-1
\* before the '.').  Digits after the second decimal are dropped.
RECURSIVE strtodFrom(_, _, _, _)
strtodFrom(text, i, acc, seen) ==
  IF i > Len(text)
    THEN IF seen <= 0 THEN acc * 100 ELSE IF seen = 1 THEN acc * 10 ELSE acc
  ELSE IF text[i] = "."
    THEN strtodFrom(text, i + 1, acc, 0)
  ELSE IF seen >= 2
    THEN strtodFrom(text, i + 1, acc, seen)
  ELSE strtodFrom(text, i + 1, acc * 10 + DigitValue(text[i]),
                  IF seen < 0 THEN seen ELSE seen + 1)

\* VAR_NUM(strtod(text)) for a text of digits with at most one '.': a
\* number is the Var that counts its hundredths.
VAR_NUM_strtod(text) == strtodFrom(text, 1, 0, -1)

\* eatNumber after the digits are eaten.
eatNumberToken(c) ==
  setNextValueToken(
    c, "TK_NUMBER",
    VAR_NUM_strtod(SubSeq(c.source, c.token_start, c.current_char - 1)))

\* The fraction of eatNumber, m being the result of matchChar(parser, '.').
eatFraction(m) == IF m.ret THEN eatDigits(m.c) ELSE m.c

\* eatNumber.
eatNumber(c) == eatNumberToken(eatFraction(matchChar(eatDigits(c), ".")))

\* The loop of lexToken's whitespace case.
RECURSIVE eatSpaces(_)
eatSpaces(c) ==
  IF peekChar(c) \in {" ", "\t", "\r"} THEN eatSpaces(eatChar(c)) ELSE c

\* The loop of lexToken.
RECURSIVE lexTokenLoop(_)
\* The cases '>' and '<' of lexToken, m being the result of matchChar.
lexShift(m, shift, one, two) ==
  IF m.ret THEN setNextToken(m.c, shift)
  ELSE setNextTwoCharToken(m.c, "=", one, two)

\* The cases of lexToken that call setNextTwoCharToken(c, one, two).
lexTwoChar(c, args) == setNextTwoCharToken(c, args[1], args[2], args[3])

\* The switch of lexToken, the character ch being eaten.
lexTokenChar(c, ch) ==
  IF OneCharToken(ch) # "" THEN setNextToken(c, OneCharToken(ch))
  ELSE IF ch \in {" ", "\t", "\r"} THEN lexTokenLoop(eatSpaces(c))
  ELSE IF TwoCharToken(ch) # <<>> THEN lexTwoChar(c, TwoCharToken(ch))
  ELSE IF ch = ">"
    THEN lexShift(matchChar(c, ">"), "TK_SRIGHT", "TK_GT", "TK_GTEQ")
  ELSE IF ch = "<"
    THEN lexShift(matchChar(c, "<"), "TK_SLEFT", "TK_LT", "TK_LTEQ")
  ELSE IF ch = "\"" THEN eatString(c)
  ELSE IF utilIsDigit(ch) THEN eatNumber(c)
  ELSE IF utilIsName(ch) THEN eatName(c)
  ELSE setNextToken(lexError(c, "Invalid character"), "TK_ERROR")

lexTokenLoop(c) ==
  IF peekChar(c) = NUL
    THEN [setNextToken(c, "TK_EOF")
            EXCEPT !.next.start = c.current_char,
                   !.overrun = @ \/ c.current_char > Len(c.source)]
    ELSE lexTokenChar(eatChar([c EXCEPT !.token_start = c.current_char]),
                      peekChar(c))

\* lexToken after previous and current are assigned.
lexTokenNext(c) == IF c.current.type = "TK_EOF" THEN c ELSE lexTokenLoop(c)

\* lexToken.
lexToken(c) ==
  lexTokenNext([c EXCEPT !.previous = c.current, !.current = c.next])

\* parserInit: the fields of the Parser.
parserInit(source) ==
  [source |-> source,
   token_start |-> 1,
   current_char |-> 1,
   current_line |-> 1,
   has_errors |-> FALSE,
   previous |-> UninitToken,
   current |-> UninitToken,
   next |-> Token("TK_ERROR", NULL, 0, 1, VAR_UNDEFINED)]
(***************************************************************************)
(* The parser.                                                             *)
(***************************************************************************)
\* peek.
peek(c) == c.current.type

\* peekNext.
peekNext(c) == c.next.type

\* The loop of matchLine.
RECURSIVE matchLineLoop(_)
matchLineLoop(c) ==
  IF peek(c) = "TK_LINE" THEN matchLineLoop(lexToken(c)) ELSE c

\* matchLine: [c, ret].
matchLine(c) ==
  IF peek(c) # "TK_LINE" THEN [c |-> c, ret |-> FALSE]
  ELSE [c |-> matchLineLoop(c), ret |-> TRUE]

\* skipNewLines.
skipNewLines(c) == matchLine(c).c

\* match after its matchLine: [c, ret].
matchPeek(c1, expected) ==
  IF peek(c1) # expected THEN [c |-> c1, ret |-> FALSE]
  ELSE [c |-> lexToken(c1), ret |-> TRUE]

\* match: [c, ret].
match(c, expected) == matchPeek(matchLine(c).c, expected)

\* An else-if chain of match calls, as in compileStatement and in the loop
\* of compileSource: [c, ret], where ret is the first type of types that
\* match accepts, "none" when every match fails.
RECURSIVE matchFirst(_, _)
matchNext(m, types) ==
  IF m.ret THEN [c |-> m.c, ret |-> Head(types)]
  ELSE matchFirst(m.c, Tail(types))

matchFirst(c, types) ==
  IF types = <<>> THEN [c |-> c, ret |-> "none"]
  ELSE matchNext(match(c, Head(types)), types)

\* The end of consumeEndStatement and of consumeStartBlock, m being the
\* result of their matchLine.
consumeLine(m, consumed, stop, err_msg) ==
  IF ~(consumed \/ m.ret) /\ peek(m.c) \notin stop
    THEN parseError(m.c, err_msg)
    ELSE m.c

\* consumeEndStatement.
consumeEndStatement(c) ==
  consumeLine(matchLine(IF peek(c) = "TK_SEMICOLLON"
                          THEN match(c, "TK_SEMICOLLON").c ELSE c),
              peek(c) = "TK_SEMICOLLON", {"TK_EOF"},
              "Expected statement end with newline or ';'.")

\* consumeStartBlock.
consumeStartBlock(c) ==
  consumeLine(matchLine(IF peek(c) = "TK_DO" THEN match(c, "TK_DO").c ELSE c),
              peek(c) = "TK_DO", {},
              "Expected enter block with newline or 'do'.")

\* consume after parseError: the expected token is skipped when it comes
\* next.
consumeRecover(c2, expected) ==
  IF peek(c2) = expected THEN lexToken(c2) ELSE c2

\* consume after its lexToken.
consumeCheck(c1, expected, err_msg) ==
  IF c1.previous.type # expected
    THEN consumeRecover(parseError(c1, err_msg), expected)
    ELSE c1

\* consume.
consume(c, expected, err_msg) ==
  consumeCheck(lexToken(matchLine(c).c), expected, err_msg)

\* Precedence.
PREC_NONE == 0
PREC_LOWEST == 1
PREC_ASSIGNMENT == 2
PREC_LOGICAL_OR == 3
PREC_LOGICAL_AND == 4
PREC_LOGICAL_NOT == 5
PREC_EQUALITY == 6
PREC_IN == 7
PREC_IS == 8
PREC_COMPARISION == 9
PREC_BITWISE_OR == 10
PREC_BITWISE_XOR == 11
PREC_BITWISE_AND == 12
PREC_BITWISE_SHIFT == 13
PREC_RANGE == 14
PREC_TERM == 15
PREC_FACTOR == 16
PREC_UNARY == 17
PREC_CALL == 18
PREC_SUBSCRIPT == 19
PREC_ATTRIB == 20
PREC_PRIMARY == 21

\* rules[type].prefix; "NULL" for a null pointer.
RulePrefix(type) ==
  CASE type = "TK_DOT" -> "exprAttrib"
    [] type = "TK_LPARAN" -> "exprGrouping"
    [] type = "TK_LBRACKET" -> "exprArray"
    [] type = "TK_LBRACE" -> "exprMap"
    [] type \in {"TK_TILD", "TK_MINUS", "TK_NOT"} -> "exprUnaryOp"
    [] type \in {"TK_TRUE", "TK_FALSE", "TK_BOOL_T", "TK_NUM_T",
                 "TK_STRING_T", "TK_ARRAY_T", "TK_MAP_T", "TK_RANGE_T",
                 "TK_FUNC_T", "TK_OBJ_T", "TK_NUMBER", "TK_STRING"} ->
         "exprLiteral"
    [] type = "TK_NAME" -> "exprName"
    [] OTHER -> "NULL"

\* The token types whose rule has exprBinaryOp as its infix.
BinaryOpTokens ==
  {"TK_DOTDOT", "TK_PERCENT", "TK_AMP", "TK_PIPE", "TK_CARET", "TK_PLUS",
   "TK_MINUS", "TK_STAR", "TK_FSLASH", "TK_GT", "TK_LT", "TK_EQEQ",
   "TK_NOTEQ", "TK_GTEQ", "TK_LTEQ", "TK_SRIGHT", "TK_SLEFT", "TK_IS",
   "TK_IN", "TK_AND", "TK_OR"}

\* The token types whose rule has exprAssignment as its infix.
AssignmentTokens ==
  {"TK_EQ", "TK_PLUSEQ", "TK_MINUSEQ", "TK_STAREQ", "TK_DIVEQ"}

\* rules[type].infix; "NULL" for a null pointer.
RuleInfix(type) ==
  CASE type \in BinaryOpTokens -> "exprBinaryOp"
    [] type \in AssignmentTokens -> "exprAssignment"
    [] type = "TK_LPARAN" -> "exprCall"
    [] type = "TK_LBRACKET" -> "exprSubscript"
    [] OTHER -> "NULL"

\* rules[type].precedence.
RulePrecedence(type) ==
  CASE type = "TK_DOT" -> PREC_ATTRIB
    [] type = "TK_DOTDOT" -> PREC_RANGE
    [] type = "TK_LPARAN" -> PREC_CALL
    [] type = "TK_LBRACKET" -> PREC_SUBSCRIPT
    [] type \in {"TK_PERCENT", "TK_STAR", "TK_FSLASH"} -> PREC_FACTOR
    [] type = "TK_AMP" -> PREC_BITWISE_AND
    [] type = "TK_PIPE" -> PREC_BITWISE_OR
    [] type = "TK_CARET" -> PREC_BITWISE_XOR
    [] type \in {"TK_PLUS", "TK_MINUS"} -> PREC_TERM
    [] type \in AssignmentTokens -> PREC_ASSIGNMENT
    [] type \in {"TK_GT", "TK_LT", "TK_GTEQ", "TK_LTEQ"} -> PREC_COMPARISION
    [] type \in {"TK_EQEQ", "TK_NOTEQ"} -> PREC_EQUALITY
    [] type \in {"TK_SRIGHT", "TK_SLEFT"} -> PREC_BITWISE_SHIFT
    [] type = "TK_IS" -> PREC_IS
    [] type = "TK_IN" -> PREC_IN
    [] type = "TK_AND" -> PREC_LOGICAL_AND
    [] type = "TK_OR" -> PREC_LOGICAL_OR
    [] type = "TK_NOT" -> PREC_LOGICAL_NOT
    [] OTHER -> PREC_NONE

(***************************************************************************)
(* The code generator.  c.fns holds the Functions the front end created:   *)
(* c.fns[f] is [name, owner, is_native, arity, opcodes, oplines,           *)
(* stack_size, emitted]; emitted is the sequence of the opcodes given to   *)
(* emitOpcode.  The Script is the object 1; c.functions and                *)
(* c.function_names are its buffers, c.literals its literals.              *)
(***************************************************************************)
MAX_VARIABLES == 256
MAX_CONSTANTS == 65536
MAX_JUMP == 65536
MAX_BREAK_PATCH == 256

\* The opcodes, in the order of the opcode list.
Opcodes ==
  <<"OP_CONSTANT", "OP_PUSH_NULL", "OP_POP", "OP_JUMP",
    "OP_JUMP_IF_NOT", "OP_RETURN", "OP_ADD", "OP_SUBTRACT",
    "OP_MULTIPLY", "OP_DIVIDE", "OP_MOD", "OP_RANGE", "OP_BIT_AND",
    "OP_BIT_OR", "OP_BIT_XOR", "OP_BIT_LSHIFT", "OP_BIT_RSHIFT",
    "OP_GT", "OP_LT", "OP_EQEQ", "OP_NOTEQ", "OP_GTEQ", "OP_LTEQ",
    "OP_IS", "OP_IN", "OP_AND", "OP_OR", "OP_NEGATIVE", "OP_NOT",
    "OP_BIT_NOT">>

\* The number of an opcode: its place in the opcode list, from 0.
Opcode(name) == (CHOOSE i \in 1..Len(Opcodes) : Opcodes[i] = name) - 1

OP_CONSTANT == Opcode("OP_CONSTANT")
OP_PUSH_NULL == Opcode("OP_PUSH_NULL")
OP_POP == Opcode("OP_POP")
OP_JUMP == Opcode("OP_JUMP")
OP_JUMP_IF_NOT == Opcode("OP_JUMP_IF_NOT")
OP_RETURN == Opcode("OP_RETURN")
OP_ADD == Opcode("OP_ADD")
OP_SUBTRACT == Opcode("OP_SUBTRACT")
OP_MULTIPLY == Opcode("OP_MULTIPLY")
OP_DIVIDE == Opcode("OP_DIVIDE")
OP_MOD == Opcode("OP_MOD")
OP_RANGE == Opcode("OP_RANGE")
OP_BIT_AND == Opcode("OP_BIT_AND")
OP_BIT_OR == Opcode("OP_BIT_OR")
OP_BIT_XOR == Opcode("OP_BIT_XOR")
OP_BIT_LSHIFT == Opcode("OP_BIT_LSHIFT")
OP_BIT_RSHIFT == Opcode("OP_BIT_RSHIFT")
OP_GT == Opcode("OP_GT")
OP_LT == Opcode("OP_LT")
OP_EQEQ == Opcode("OP_EQEQ")
OP_NOTEQ == Opcode("OP_NOTEQ")
OP_GTEQ == Opcode("OP_GTEQ")
OP_LTEQ == Opcode("OP_LTEQ")
OP_IS == Opcode("OP_IS")
OP_IN == Opcode("OP_IN")
OP_AND == Opcode("OP_AND")
OP_OR == Opcode("OP_OR")
OP_NEGATIVE == Opcode("OP_NEGATIVE")
OP_NOT == Opcode("OP_NOT")
OP_BIT_NOT == Opcode("OP_BIT_NOT")

\* opcode_info[opcode]: the number of operand bytes and the stack delta.
opcode_info(opcode) ==
  CASE opcode = OP_CONSTANT -> [params |-> 2, stack |-> 1]
    [] opcode = OP_PUSH_NULL -> [params |-> 0, stack |-> 1]
    [] opcode = OP_POP -> [params |-> 0, stack |-> -1]
    [] opcode = OP_JUMP -> [params |-> 2, stack |-> 0]
    [] opcode = OP_JUMP_IF_NOT -> [params |-> 2, stack |-> -1]
    [] opcode = OP_RETURN -> [params |-> 0, stack |-> -1]
    [] opcode \in OP_ADD..OP_OR -> [params |-> 0, stack |-> -1]
    [] opcode \in OP_NEGATIVE..OP_BIT_NOT -> [params |-> 0, stack |-> 0]
    [] OTHER -> [params |-> 0, stack |-> 0]

\* The opcode exprBinaryOp emits for the operator token op.
BinaryOpcode(op) ==
  CASE op = "TK_DOTDOT" -> OP_RANGE [] op = "TK_PERCENT" -> OP_MOD
    [] op = "TK_AMP" -> OP_BIT_AND [] op = "TK_PIPE" -> OP_BIT_OR
    [] op = "TK_CARET" -> OP_BIT_XOR [] op = "TK_PLUS" -> OP_ADD
    [] op = "TK_MINUS" -> OP_SUBTRACT [] op = "TK_STAR" -> OP_MULTIPLY
    [] op = "TK_FSLASH" -> OP_DIVIDE [] op = "TK_GT" -> OP_GT
    [] op = "TK_LT" -> OP_LT [] op = "TK_EQEQ" -> OP_EQEQ
    [] op = "TK_NOTEQ" -> OP_NOTEQ [] op = "TK_GTEQ" -> OP_GTEQ
    [] op = "TK_LTEQ" -> OP_LTEQ [] op = "TK_SRIGHT" -> OP_BIT_RSHIFT
    [] op = "TK_SLEFT" -> OP_BIT_LSHIFT [] op = "TK_IS" -> OP_IS
    [] op = "TK_IN" -> OP_IN [] op = "TK_AND" -> OP_AND
    [] op = "TK_OR" -> OP_OR

\* The opcode exprUnaryOp emits for the operator token op.
UnaryOpcode(op) ==
  CASE op = "TK_TILD" -> OP_BIT_NOT
    [] op = "TK_MINUS" -> OP_NEGATIVE
    [] op = "TK_NOT" -> OP_NOT

\* A statement that is ASSERT(false, "TODO:").
assertFalse(c) == [c EXCEPT !.asserts = @ + 1]

\* The smallest element of a non-empty set of integers.
Min(S) == CHOOSE i \in S : \A j \in S : i <= j

\* compilerAddConstant without its search loop: the value is written even
\* when the buffer holds it.
addConstantNoSearch(literals, value) ==
  IF Len(literals) < MAX_CONSTANTS
    THEN [literals |-> Append(literals, value), ret |-> Len(literals),
          full |-> FALSE]
    ELSE [literals |-> literals, ret |-> Len(literals) - 1, full |-> TRUE]

\* compilerAddConstant returning the count of before the write, less one,
\* for a value it adds.
addConstantOldCount(literals, value) ==
  LET found == {i \in DOMAIN literals : isValuesSame(literals[i], value)}
  IN IF found # {}
       THEN [literals |-> literals, ret |-> Min(found) - 1, full |-> FALSE]
     ELSE IF Len(literals) < MAX_CONSTANTS
       THEN [literals |-> Append(literals, value), ret |-> Len(literals) - 1,
             full |-> FALSE]
     ELSE [literals |-> literals, ret |-> Len(literals) - 1, full |-> TRUE]

\* compilerAddConstant on the literals buffer: [literals, ret, full]; full
\* tells that the value was not added because the buffer holds MAX_CONSTANTS.
addConstant(literals, value) ==
  LET found == {i \in DOMAIN literals : isValuesSame(literals[i], value)}
  IN IF found # {}
       THEN [literals |-> literals, ret |-> Min(found) - 1, full |-> FALSE]
     ELSE IF Len(literals) < MAX_CONSTANTS
       THEN [literals |-> Append(literals, value), ret |-> Len(literals),
             full |-> FALSE]
     ELSE [literals |-> literals, ret |-> Len(literals) - 1, full |-> TRUE]

\* compilerAddConstant: [c, ret].
compilerAddConstant(c, value) ==
  LET r == addConstant(c.literals, value)
      c1 == [c EXCEPT !.literals = r.literals]
  IN [c |-> IF r.full
              THEN parseError(c1, "A script should contain at most %d unique constants.")
              ELSE c1,
      ret |-> r.ret]

\* compilerSearchVariables: the index of the variable, -1 if there is none.
compilerSearchVariables(c, name, currentScope) ==
  LET found == {i \in 0..(c.var_count - 1) :
                  /\ ~(currentScope /\ c.scope_depth # c.variables[i + 1].depth)
                  /\ c.variables[i + 1].name = name}
  IN IF found = {} THEN -1 ELSE Min(found)

\* compilerAddVariable: [c, ret].
compilerAddVariable(c, name) ==
  [c |-> [c EXCEPT !.variables =
                     [i \in 1..(c.var_count + 1) |->
                        IF i = c.var_count + 1
                          THEN [name |-> name, depth |-> c.scope_depth]
                          ELSE c.variables[i]],
                   !.var_count = @ + 1],
   ret |-> c.var_count]

\* compilerEnterBlock.
compilerEnterBlock(c) == [c EXCEPT !.scope_depth = @ + 1]

\* variables[i].depth.  The slots below variables[0] are memory of the
\* Compiler that holds no Variable: what is read there is c.garbage.depth
\* in the slot -1 and c.garbage.depth2 below.
variableDepth(c, i) ==
  IF i >= 0 THEN c.variables[i + 1].depth
  ELSE IF i = -1 THEN c.garbage.depth
  ELSE c.garbage.depth2

\* The number of slots below variables[0] the loop of compilerExitBlock is
\* followed into.
MaxBelow == 2

\* The loop of compilerExitBlock.
RECURSIVE exitBlockLoop(_)
exitBlockLoop(c) ==
  LET c1 == [c EXCEPT !.oobRead = @ \/ c.var_count - 1 < 0]
  IN IF c.var_count > -MaxBelow
        /\ variableDepth(c, c.var_count - 1) >= c.scope_depth
       THEN exitBlockLoop([c1 EXCEPT !.var_count = @ - 1,
                                     !.stack_size = @ - 1,
                                     !.variables =
                                        SubSeq(@, 1, c.var_count - 1)])
       ELSE c1

\* compilerExitBlock.
compilerExitBlock(c) ==
  LET c1 == IF c.scope_depth > -1 THEN c ELSE assertFalse(c)
  IN [exitBlockLoop(c1) EXCEPT !.scope_depth = @ - 1]

\* emitByte: [c, ret].  With compiler->function == NULL the write goes
\* through a null pointer.
emitByte(c, byte) ==
  IF c.function = NULL
    THEN [c |-> [c EXCEPT !.nullDeref = TRUE], ret |-> -1]
    ELSE [c |-> [c EXCEPT !.fns[c.function].opcodes = Append(@, byte % 256),
                          !.fns[c.function].oplines =
                             Append(@, c.previous.line)],
          ret |-> Len(c.fns[c.function].opcodes)]

\* emitShort: [c, ret].
emitShort(c, arg) ==
  LET hi == emitByte(c, (arg \div 256) % 256)
      lo == emitByte(hi.c, arg % 256)
  IN [c |-> lo.c, ret |-> lo.ret - 1]

\* emitOpcode.
emitOpcode(c, opcode) ==
  LET c1 == emitByte(c, opcode).c
      size == c.stack_size + opcode_info(opcode).stack
  IN IF c1.nullDeref THEN c1
     ELSE [c1 EXCEPT !.stack_size = size,
                     !.fns[c.function].stack_size =
                        IF size > @ THEN size ELSE @,
                     !.fns[c.function].emitted = Append(@, opcode)]

\* emitConstant.
emitConstant(c, value) ==
  LET k == compilerAddConstant(c, value)
  IN emitShort(emitOpcode(k.c, OP_CONSTANT), k.ret).c

\* patchJump.  The byte at addr_index + 1 lies outside the bytecode when
\* the placeholder is the last byte emitted.
patchJump(c, addr_index) ==
  IF c.function = NULL THEN [c EXCEPT !.nullDeref = TRUE]
  ELSE
    LET data == c.fns[c.function].opcodes
        jump_to == Len(data)
        c1 == IF jump_to < MAX_JUMP THEN c ELSE assertFalse(c)
    IN [c1 EXCEPT
          !.fns[c.function].opcodes =
             [i \in DOMAIN data |->
                IF i = addr_index + 1 THEN (jump_to \div 256) % 256
                ELSE IF i = addr_index + 2 THEN jump_to % 256
                ELSE data[i]],
          !.oobWrite = @ \/ addr_index + 1 >= Len(data) \/ addr_index < 0]

\* exprLiteral.
exprLiteral(c) ==
  LET k == compilerAddConstant(c, c.previous.value)
  IN emitShort(emitOpcode(k.c, OP_CONSTANT), k.ret).c

RECURSIVE parsePrecedence(_, _)
RECURSIVE parseInfix(_, _)
RECURSIVE parseCall(_, _, _)
RECURSIVE compileStatement(_)
RECURSIVE compileBlockLoop(_, _)

\* compileExpression.
compileExpression(c) == parsePrecedence(c, PREC_LOWEST)

\* exprBinaryOp with the right-hand side parsed at the precedence of the
\* operator itself, which groups equal precedences to the right.
exprBinaryOpSamePrecedence(c) ==
  LET op == c.previous.type
      c1 == parsePrecedence(skipNewLines(c), RulePrecedence(op))
  IN emitOpcode(c1, BinaryOpcode(op))

\* exprBinaryOp.
exprBinaryOp(c) ==
  LET op == c.previous.type
      c1 == parsePrecedence(skipNewLines(c), RulePrecedence(op) + 1)
  IN emitOpcode(c1, BinaryOpcode(op))

\* exprUnaryOp.
exprUnaryOp(c) ==
  LET op == c.previous.type
      c1 == parsePrecedence(skipNewLines(c), PREC_UNARY + 1)
  IN emitOpcode(c1, UnaryOpcode(op))

\* exprGrouping.
exprGrouping(c) ==
  consume(compileExpression(c), "TK_RPARAN", "Expected ')' after expression ")

\* The call of a prefix or infix parselet through its pointer; exprName,
\* exprAssignment, exprArray, exprMap, exprCall, exprAttrib and
\* exprSubscript are ASSERT(false, "TODO:").
callGrammarFn(c, fn) ==
  CASE fn = "exprLiteral" -> exprLiteral(c)
    [] fn = "exprBinaryOp" -> exprBinaryOp(c)
    [] fn = "exprUnaryOp" -> exprUnaryOp(c)
    [] fn = "exprGrouping" -> exprGrouping(c)
    [] fn = "NULL" -> [c EXCEPT !.nullCall = TRUE]
    [] OTHER -> assertFalse(c)

\* The call of a parselet of parsePrecedence, with the while loop that
\* follows it.
parseCall(c, fn, precedence) ==
  parseInfix(callGrammarFn(c, fn), precedence)

\* An iteration of the while loop of parsePrecedence after its lexToken.
parseInfixOp(c, precedence) ==
  parseCall(c, RuleInfix(c.previous.type), precedence)

\* The while loop of parsePrecedence.
parseInfix(c, precedence) ==
  IF c.nullCall \/ RulePrecedence(c.current.type) < precedence THEN c
  ELSE parseInfixOp(lexToken(c), precedence)

\* parsePrecedence after its lexToken.
parsePrefix(c, precedence) ==
  IF RulePrefix(c.previous.type) = "NULL"
    THEN parseError(c, "Expected an expression.")
    ELSE parseCall(c, RulePrefix(c.previous.type), precedence)

\* parsePrecedence.
parsePrecedence(c, precedence) == parsePrefix(lexToken(c), precedence)

\* A Loop.
Loop(start, outer_loop) ==
  [start |-> start, patches |-> <<>>, outer_loop |-> outer_loop,
   wild |-> FALSE]

\* compiler->loop == NULL.
NoLoop == <<>>

\* compiler->loop as compilerInit leaves it when the memory of the Compiler
\* is not zero: a pointer to no Loop.
WildLoop ==
  <<[start |-> 0, patches |-> <<>>, outer_loop |-> <<>>, wild |-> TRUE]>>

\* compileBlockBody.
compileBlockBody(c, if_body) ==
  compilerExitBlock(compileBlockLoop(compilerEnterBlock(c), if_body))

\* The loop of compileBlockBody.
compileBlockLoop(c, if_body) ==
  LET next == peek(c)
  IN IF next \in {"TK_END", "TK_EOF"}
          \/ (if_body /\ next \in {"TK_ELSE", "TK_ELIF"})
       THEN c
       ELSE compileBlockLoop(compileStatement(c), if_body)

\* compileIfStatement after match(TK_ELIF) failed.
compileIfElse(else, ifpatch) ==
  IF else.ret THEN compileBlockBody(patchJump(else.c, ifpatch), FALSE)
  ELSE patchJump(else.c, ifpatch)

\* compileIfStatement after its first block.
compileIfElif(elif, ifpatch) ==
  IF elif.ret THEN compileBlockBody(patchJump(elif.c, ifpatch), TRUE)
  ELSE compileIfElse(match(elif.c, "TK_ELSE"), ifpatch)

\* compileIfStatement after the placeholder p of ifpatch is emitted.
compileIfBlock(p) ==
  compileIfElif(
    match(compileBlockBody(consumeStartBlock(p.c), TRUE), "TK_ELIF"), p.ret)

\* compileIfStatement.
compileIfStatement(c) ==
  compileIfBlock(
    emitByte(emitOpcode(compileExpression(c), OP_JUMP_IF_NOT), 65535))

\* The break patches loop of compileWhileStatement, from patch i on.
RECURSIVE patchBreaks(_, _)
patchBreaks(c, i) ==
  IF i > Len(c.loop[1].patches) THEN c
  ELSE patchBreaks(patchJump(c, c.loop[1].patches[i]), i + 1)

\* The last statement of compileWhileStatement.
compileWhileEnd(c) == [c EXCEPT !.loop = c.loop[1].outer_loop]

\* compileWhileStatement after the placeholder p of whilepatch is emitted.
compileWhileBlock(p, start) ==
  compileWhileEnd(
    patchBreaks(
      patchJump(
        emitShort(emitOpcode(compileBlockBody(p.c, FALSE), OP_JUMP), start).c,
        p.ret),
      1))

\* compileWhileStatement after loop is set up.
compileWhileCondition(c, start) ==
  compileWhileBlock(
    emitByte(emitOpcode(compileExpression(c), OP_JUMP_IF_NOT), 65535), start)

\* loop.start of compileWhileStatement.
loopStart(c) ==
  IF c.function = NULL THEN 0 ELSE Len(c.fns[c.function].opcodes)

\* compileWhileStatement.
compileWhileStatement(c) ==
  compileWhileCondition(
    [c EXCEPT !.loop = <<Loop(loopStart(c), c.loop)>>,
              !.nullDeref = @ \/ c.function = NULL],
    loopStart(c))

\* compileForStatement.
compileForStatement(c) == assertFalse(c)

\* The break case of compileStatement.
compileBreak(c) ==
  IF c.loop = NoLoop
    THEN parseError(c, "Cannot use 'break' outside a loop.")
    ELSE
      LET c1 == IF Len(c.loop[1].patches) < MAX_BREAK_PATCH THEN c
                ELSE assertFalse(c)
          p == emitByte(emitOpcode(c1, OP_JUMP), 65535)
      IN IF c.loop[1].wild THEN [p.c EXCEPT !.wild = TRUE]
         ELSE [p.c EXCEPT !.loop[1].patches = Append(@, p.ret)]

\* The continue case of compileStatement.
compileContinue(c) ==
  IF c.loop = NoLoop
    THEN parseError(c, "Cannot use 'continue' outside a loop.")
    ELSE [emitShort(emitOpcode(c, OP_JUMP), c.loop[1].start).c
            EXCEPT !.wild = @ \/ c.loop[1].wild]

\* The return case of compileStatement.
compileReturn(c) ==
  IF c.scope_depth = -1
    THEN parseError(c, "Invalid 'return' outside a function.")
  ELSE IF peek(c) \in {"TK_SEMICOLLON", "TK_LINE"}
    THEN emitOpcode(emitOpcode(c, OP_PUSH_NULL), OP_RETURN)
  ELSE emitOpcode(compileExpression(c), OP_RETURN)

\* The keywords compileStatement matches, in its order.
StatementKeywords ==
  <<"TK_BREAK", "TK_CONTINUE", "TK_RETURN", "TK_IF", "TK_WHILE", "TK_FOR">>

\* compileStatement after its matches, m being their result.
compileMatched(m) ==
  CASE m.ret = "TK_BREAK" -> compileBreak(m.c)
    [] m.ret = "TK_CONTINUE" -> compileContinue(m.c)
    [] m.ret = "TK_RETURN" -> compileReturn(m.c)
    [] m.ret = "TK_IF" -> compileIfStatement(m.c)
    [] m.ret = "TK_WHILE" -> compileWhileStatement(m.c)
    [] m.ret = "TK_FOR" -> compileForStatement(m.c)
    [] OTHER -> emitOpcode(compileExpression(m.c), OP_POP)

\* compileStatement.
compileStatement(c) == compileMatched(matchFirst(c, StatementKeywords))

\* The characters of a token.
tokenText(c, token) ==
  [i \in 1..token.length |-> charAt(c, token.start + i - 1)]

\* nameTableAdd: [names, ret]; the index of the name in the table, where it
\* is appended if it is not there.
nameTableAddName(names, name) ==
  LET found == {i \in DOMAIN names : names[i] = name}
  IN IF found # {} THEN [names |-> names, ret |-> Min(found) - 1]
     ELSE [names |-> Append(names, name), ret |-> Len(names)]

\* A Function object.
FunctionObj(name, owner, is_native) ==
  [name |-> name, owner |-> owner, is_native |-> is_native,
   arity |-> IF owner = NULL THEN 0 ELSE -2,
   opcodes |-> <<>>, oplines |-> <<>>, stack_size |-> 0, emitted |-> <<>>]

\* newFunction: [c, ret].  The owner is the Script (the object 1) or NULL.
newFunction(c, name, owner, is_native) ==
  LET func == Len(c.fns) + 1
      c1 == [c EXCEPT !.fns = Append(@, FunctionObj(name, owner, is_native))]
  IN IF owner = NULL
       THEN [c |-> IF is_native THEN c1 ELSE assertFalse(c1), ret |-> func]
       ELSE [c |-> [c1 EXCEPT !.functions = Append(@, func),
                              !.function_names =
                                 nameTableAddName(@, name).names],
             ret |-> func]

\* The name newScript gives to the body of the Script.
ScriptLevel ==
  <<"@", "(", "S", "c", "r", "i", "p", "t", "L", "e", "v", "e", "l", ")">>

\* newScript: the Script is the object 1, its body the Function c.body.
newScript(c) ==
  LET c1 == [c EXCEPT !.literals = <<>>, !.functions = <<>>,
                      !.function_names = <<>>]
      f == newFunction(c1, ScriptLevel, 1, FALSE)
  IN [f.c EXCEPT !.body = f.ret]

\* The parameter list loop of compileFunction.
RECURSIVE compileParameters(_)
\* An iteration of the parameter list loop, m being the result of
\* match(TK_NAME).
compileParameter(m) ==
  IF ~m.ret THEN m.c
  ELSE compileParameters(
         match(IF compilerSearchVariables(
                    m.c, tokenText(m.c, m.c.previous), TRUE) # -1
                 THEN parseError(m.c, "Multiple definition of a parameter")
                 ELSE m.c,
               "TK_COMMA").c)

compileParameters(c) == compileParameter(match(c, "TK_NAME"))

\* compileFunction from the test of is_native on.
compileFunctionBody(c, is_native) ==
  IF is_native
    THEN [c EXCEPT !.scope_depth = @ - 1, !.function = NULL]
    ELSE [compileBlockBody(c, FALSE)
            EXCEPT !.scope_depth = @ - 1, !.function = c.body]

\* compileFunction after newFunction returned f: functionBufferWrite, the
\* parameter list and the end of the statement.
compileFunctionParameters(f, is_native) ==
  compileFunctionBody(
    consumeEndStatement(
      consume(
        compileParameters(
          [consume([f.c EXCEPT !.functions = Append(@, f.ret),
                               !.function = f.ret],
                   "TK_LPARAN", "Expected '(' after function name.")
             EXCEPT !.scope_depth = @ + 1]),
        "TK_RPARAN", "Expected ')' after parameters end.")),
    is_native)

\* compileFunction after the name is consumed: nameTableAdd and newFunction.
\* The name is read from the source over previous.length characters.
compileFunctionName(c, is_native) ==
  compileFunctionParameters(
    newFunction(
      [c EXCEPT !.function_names =
                   nameTableAddName(@, tokenText(c, c.previous)).names,
                !.overrun = @ \/ (c.previous.length > 0
                                  /\ c.previous.start + c.previous.length - 1
                                       > Len(c.source))],
      tokenText(c, c.previous), 1, is_native),
    is_native)

\* compileFunction.
compileFunction(c, is_native) ==
  compileFunctionName(consume(c, "TK_NAME", "Expected a function name."),
                      is_native)

\* compilerInit: the fields of the Compiler, with those of the Script and
\* of the heap of the front end.  compiler->loop, compiler->function and
\* compiler->script are not assigned: compileSource assigns script and
\* function, loop keeps what the memory held.
compilerInit(source, garbage) ==
  parserInit(source) @@
  [scope_depth |-> -1, var_count |-> 0, stack_size |-> 0,
   variables |-> <<>>, loop |-> garbage.loop, function |-> NULL,
   body |-> NULL, literals |-> <<>>, functions |-> <<>>,
   function_names |-> <<>>, fns |-> <<>>, strings |-> <<>>,
   garbage |-> garbage, asserts |-> 0, errors |-> <<>>, hostCalls |-> <<>>,
   vm_compiler |-> 1,
   overrun |-> FALSE, oobRead |-> FALSE, oobWrite |-> FALSE,
   nullDeref |-> FALSE, nullCall |-> FALSE, wild |-> FALSE]

\* compileSource up to its loop: compilerInit, newScript, the two initial
\* lexToken calls and skipNewLines.
compileSourceBegin(source, garbage, config) ==
  LET c0 == [config |-> config] @@ compilerInit(source, garbage)
      c == newScript([c0 EXCEPT !.hostCalls = Append(@, "load_script_fn")])
  IN skipNewLines(lexToken(lexToken([c EXCEPT !.function = c.body])))

\* vm->config as the host set it: load_script_done_fn is a function (1) or
\* NULL.
Configs == [load_script_done_fn : {NULL, 1}]

\* What the memory holds that the front end reads without having written
\* it: compiler->loop, the depth fields below variables[0], the character
\* after the NUL of the source.
Garbage ==
  [loop : {NoLoop, WildLoop}, depth : {-1, 0, 1}, depth2 : {-1, 0},
   char : {NUL, "\""}]

\* The phase after a step of compileSource that left the Compiler c: a null
\* pointer was used, an ASSERT failed in a build that checks them, or the
\* loop goes on.
compilePhase(c, debug) ==
  IF c.nullDeref \/ c.nullCall THEN "crashed"
  ELSE IF debug /\ c.asserts > 0 THEN "aborted"
  ELSE "compiling"

CompileStart ==
  /\ cs = <<>>
  /\ csPhase = "idle"
  /\ csDebug = FALSE

CompileIdle == CompileStart

\* compileSource is called: everything before its loop.
CompileSource(source, garbage, debug, config) ==
  /\ csPhase = "idle"
  /\ cs' = compileSourceBegin(source, garbage, config)
  /\ csDebug' = debug
  /\ csPhase' = compilePhase(cs', debug)

\* The matches of an iteration of the loop of compileSource: [c, ret].
topLevel(c) ==
  matchFirst(c, <<"TK_EOF", "TK_NATIVE", "TK_DEF", "TK_IMPORT">>)

\* The loop of compileSource ends: match(parser, TK_EOF); then the source
\* done callback, if the host gave one, and vm->compiler = NULL.
CompileEOF ==
  /\ csPhase = "compiling"
  /\ topLevel(cs).ret = "TK_EOF"
  /\ cs' = [topLevel(cs).c
              EXCEPT !.hostCalls = IF cs.config.load_script_done_fn # NULL
                                     THEN Append(@, "load_script_done_fn")
                                     ELSE @,
                     !.vm_compiler = NULL]
  /\ csPhase' = "done"
  /\ UNCHANGED csDebug

\* An iteration of the loop of compileSource: a native declaration.
CompileNative ==
  /\ csPhase = "compiling"
  /\ topLevel(cs).ret = "TK_NATIVE"
  /\ cs' = compileFunction(topLevel(cs).c, TRUE)
  /\ csPhase' = compilePhase(cs', csDebug)
  /\ UNCHANGED csDebug

\* An iteration of the loop of compileSource: a def.
CompileDef ==
  /\ csPhase = "compiling"
  /\ topLevel(cs).ret = "TK_DEF"
  /\ cs' = compileFunction(topLevel(cs).c, FALSE)
  /\ csPhase' = compilePhase(cs', csDebug)
  /\ UNCHANGED csDebug

\* An iteration of the loop of compileSource: import.
CompileImport ==
  /\ csPhase = "compiling"
  /\ topLevel(cs).ret = "TK_IMPORT"
  /\ cs' = assertFalse(topLevel(cs).c)
  /\ csPhase' = compilePhase(cs', csDebug)
  /\ UNCHANGED csDebug

\* An iteration of the loop of compileSource: a statement.
CompileStatement ==
  /\ csPhase = "compiling"
  /\ topLevel(cs).ret = "none"
  /\ cs' = compileStatement(topLevel(cs).c)
  /\ csPhase' = compilePhase(cs', csDebug)
  /\ UNCHANGED csDebug

(***************************************************************************)
(* The sources the front end is run on.                                    *)
(***************************************************************************)
\* while 1 do\n  break\nend
SrcWhileBreak ==
  <<"w", "h", "i", "l", "e", " ", "1", " ", "d", "o", "\n", " ", " ", "b",
     "r", "e", "a", "k", "\n", "e", "n", "d", NUL >>

\* while 1 do\n  break\nend\n
SrcWhileBreakLine ==
  <<"w", "h", "i", "l", "e", " ", "1", " ", "d", "o", "\n", " ", " ", "b",
     "r", "e", "a", "k", "\n", "e", "n", "d", "\n", NUL >>

\* while 1\n  break\nend\n
SrcWhileNoDo ==
  <<"w", "h", "i", "l", "e", " ", "1", "\n", " ", " ", "b", "r", "e", "a",
     "k", "\n", "e", "n", "d", "\n", NUL >>

\* if 1\n  2\nend\n
SrcIf ==
  <<"i", "f", " ", "1", "\n", " ", " ", "2", "\n", "e", "n", "d", "\n", NUL >>

\* if 1\nend
SrcIfLast ==
  <<"i", "f", " ", "1", "\n", "e", "n", "d", NUL >>

\* if 1 do\n 2\nelse\n 3\nend\n
SrcIfElse ==
  <<"i", "f", " ", "1", " ", "d", "o", "\n", " ", "2", "\n", "e", "l", "s",
     "e", "\n", " ", "3", "\n", "e", "n", "d", "\n", NUL >>

\* if 1\n 2\nelif 3\n 4\nend\n
SrcIfElif ==
  <<"i", "f", " ", "1", "\n", " ", "2", "\n", "e", "l", "i", "f", " ", "3",
     "\n", " ", "4", "\n", "e", "n", "d", "\n", NUL >>

\* while 1\n continue\nend
SrcWhileContinue ==
  <<"w", "h", "i", "l", "e", " ", "1", "\n", " ", "c", "o", "n", "t", "i",
     "n", "u", "e", "\n", "e", "n", "d", NUL >>

\* while 1\nend
SrcWhileLast ==
  <<"w", "h", "i", "l", "e", " ", "1", "\n", "e", "n", "d", NUL >>

\* def f()\n while 1\n  if 2\n   break\n  end\n end\nend\n
SrcNested ==
  <<"d", "e", "f", " ", "f", "(", ")", "\n", " ", "w", "h", "i", "l", "e",
     " ", "1", "\n", " ", " ", "i", "f", " ", "2", "\n", " ", " ", " ", "b",
     "r", "e", "a", "k", "\n", " ", " ", "e", "n", "d", "\n", " ", "e", "n",
     "d", "\n", "e", "n", "d", "\n", NUL >>

\* def f()\n 1 + 2\nend\ndef g()\n 3\nend\n
SrcTwoDefs ==
  <<"d", "e", "f", " ", "f", "(", ")", "\n", " ", "1", " ", "+", " ", "2",
     "\n", "e", "n", "d", "\n", "d", "e", "f", " ", "g", "(", ")", "\n", " ",
     "3", "\n", "e", "n", "d", "\n", NUL >>

\* def f()\nend\ndef f()\nend\n
SrcSameName ==
  <<"d", "e", "f", " ", "f", "(", ")", "\n", "e", "n", "d", "\n", "d", "e",
     "f", " ", "f", "(", ")", "\n", "e", "n", "d", "\n", NUL >>

\* native f()\nnative g()\n
SrcNatives ==
  <<"n", "a", "t", "i", "v", "e", " ", "f", "(", ")", "\n", "n", "a", "t",
     "i", "v", "e", " ", "g", "(", ")", "\n", NUL >>

\* native f()\ndef f()\nend
SrcNativeDef ==
  <<"n", "a", "t", "i", "v", "e", " ", "f", "(", ")", "\n", "d", "e", "f",
     " ", "f", "(", ")", "\n", "e", "n", "d", NUL >>

\* native f()\n1\n
SrcNativeThenStatement ==
  <<"n", "a", "t", "i", "v", "e", " ", "f", "(", ")", "\n", "1", "\n", NUL >>

\* def f()\n return 1\nend\n
SrcReturn ==
  <<"d", "e", "f", " ", "f", "(", ")", "\n", " ", "r", "e", "t", "u", "r",
     "n", " ", "1", "\n", "e", "n", "d", "\n", NUL >>

\* def f()\n return\nend\n
SrcReturnNull ==
  <<"d", "e", "f", " ", "f", "(", ")", "\n", " ", "r", "e", "t", "u", "r",
     "n", "\n", "e", "n", "d", "\n", NUL >>

\* return\n
SrcReturnTop ==
  <<"r", "e", "t", "u", "r", "n", "\n", NUL >>

\* def f(a, a)\nend\n
SrcParams ==
  <<"d", "e", "f", " ", "f", "(", "a", ",", " ", "a", ")", "\n", "e", "n",
     "d", "\n", NUL >>

\* 1 + 2 * 3\n
SrcArith ==
  <<"1", " ", "+", " ", "2", " ", "*", " ", "3", "\n", NUL >>

\* 1 - 2 - 3
SrcArithLeft ==
  <<"1", " ", "-", " ", "2", " ", "-", " ", "3", NUL >>

\* (1 + 2) * 3
SrcGroup ==
  <<"(", "1", " ", "+", " ", "2", ")", " ", "*", " ", "3", NUL >>

\* -1 +\n 2
SrcUnary ==
  <<"-", "1", " ", "+", "\n", " ", "2", NUL >>

\* 3.14\n3.14\n3.14\n3.14\n
SrcPi ==
  <<"3", ".", "1", "4", "\n", "3", ".", "1", "4", "\n", "3", ".", "1", "4",
     "\n", "3", ".", "1", "4", "\n", NUL >>

\* break\n
SrcBreak ==
  <<"b", "r", "e", "a", "k", "\n", NUL >>

\* continue\n
SrcContinue ==
  <<"c", "o", "n", "t", "i", "n", "u", "e", "\n", NUL >>

\* a = 1 + 2\n
SrcAssign ==
  <<"a", " ", "=", " ", "1", " ", "+", " ", "2", "\n", NUL >>

\* whilely
SrcWhilely ==
  <<"w", "h", "i", "l", "e", "l", "y", NUL >>

\* "a\\n"
SrcString ==
  <<"\"", "a", "\\", "n", "\"", NUL >>

\* "abc
SrcStringOpen ==
  <<"\"", "a", "b", "c", NUL >>

\* "a\\
SrcStringEscapeEnd ==
  <<"\"", "a", "\\", NUL >>

\* "\\q"
SrcStringBadEscape ==
  <<"\"", "\\", "q", "\"", NUL >>

\* "a" == "a"
SrcStrings ==
  <<"\"", "a", "\"", " ", "=", "=", " ", "\"", "a", "\"", NUL >>

\* null\ntrue\nfalse\n
SrcLiterals ==
  <<"n", "u", "l", "l", "\n", "t", "r", "u", "e", "\n", "f", "a", "l", "s",
     "e", "\n", NUL >>

\* 7\ntrue
SrcTrue ==
  <<"7", "\n", "t", "r", "u", "e", NUL >>

\* 1 ! 2
SrcBang ==
  <<"1", " ", "!", " ", "2", NUL >>

\* 1 . 2
SrcDot ==
  <<"1", " ", ".", " ", "2", NUL >>

\* import x\n
SrcImport ==
  <<"i", "m", "p", "o", "r", "t", " ", "x", "\n", NUL >>

\* for\n
SrcFor ==
  <<"f", "o", "r", "\n", NUL >>

\* $
SrcInvalid ==
  <<"$", NUL >>

\* 
SrcEmpty ==
  <<NUL >>

\* def
SrcDefEOF ==
  <<"d", "e", "f", NUL >>

\* 1; 2\n
SrcSemi ==
  <<"1", ";", " ", "2", "\n", NUL >>

\* def f()\nend\ndef g()\n 3\nend\n
SrcDefs ==
  <<"d", "e", "f", " ", "f", "(", ")", "\n", "e", "n", "d", "\n", "d", "e", "f", " ", "g", "(", ")", "\n", " ", "3", "\n", "e", "n", "d", "\n", NUL >>

\* if 1 do 2
SrcIfOneLine ==
  <<"i", "f", " ", "1", " ", "d", "o", " ", "2", NUL >>

\* while 1 2
SrcWhileOneLine ==
  <<"w", "h", "i", "l", "e", " ", "1", " ", "2", NUL >>

\* def f()\n 3
SrcDefOneLine ==
  <<"d", "e", "f", " ", "f", "(", ")", "\n", " ", "3", NUL >>

\* 1 2
SrcTwoOnLine ==
  <<"1", " ", "2", NUL >>

\* if 1 do return 2
SrcIfReturn ==
  <<"i", "f", " ", "1", " ", "d", "o", " ", "r", "e", "t", "u", "r", "n", " ",
    "2", NUL >>

Sources ==
  {SrcWhileBreak, SrcWhileBreakLine, SrcWhileNoDo, SrcIf,
   SrcIfLast, SrcIfElse, SrcIfElif, SrcWhileContinue,
   SrcWhileLast, SrcNested, SrcTwoDefs, SrcSameName,
   SrcNatives, SrcNativeDef, SrcNativeThenStatement, SrcReturn,
   SrcReturnNull, SrcReturnTop, SrcParams, SrcArith,
   SrcArithLeft, SrcGroup, SrcUnary, SrcPi,
   SrcBreak, SrcContinue, SrcAssign, SrcWhilely,
   SrcString, SrcStringOpen, SrcStringEscapeEnd, SrcStringBadEscape,
   SrcStrings, SrcLiterals, SrcTrue, SrcBang,
   SrcDot, SrcImport, SrcFor, SrcInvalid,
   SrcEmpty, SrcDefEOF, SrcSemi, SrcDefs,
   SrcIfOneLine, SrcWhileOneLine, SrcDefOneLine, SrcTwoOnLine,
   SrcIfReturn}

(***************************************************************************)
(* The constant pool: compilerAddConstant called on a Script.              *)
(***************************************************************************)
\* Memory that holds zero bytes where the front end reads what it has not
\* written.
ZeroMemory == [loop |-> NoLoop, depth |-> 0, depth2 |-> 0, char |-> NUL]

\* The values added to the Script: null, true and the numbers 0 and 3.14.
ConstValues == {VAR_NULL, VAR_TRUE, 0, 314}

\* The literals of a Script that holds the numbers 0.01, 0.02, ... up to two
\* entries less than MAX_CONSTANTS.
Prefilled == [i \in 1..(MAX_CONSTANTS - 2) |-> i]

\* The number of calls of compilerAddConstant that report an error.
MaxOverflows == 2

\* No call of compilerAddConstant was made.
NoCall ==
  [value |-> VAR_UNDEFINED, ret |-> -1, full |-> FALSE, again |-> FALSE]

\* The Compiler after compilerInit and newScript when the Script holds
\* literals; first[v] is what the first call for v returned, last the last
\* call.
Pool(literals) ==
  [c |-> [newScript(compilerInit(SrcEmpty, ZeroMemory))
            EXCEPT !.literals = literals],
   first |-> [v \in ConstValues |-> -1],
   last |-> NoCall]

ConstStart == pool \in {Pool(<<>>), Pool(Prefilled)}

ConstIdle == pool = Pool(<<>>)

\* The calls made once compilerAddConstant(compiler, value) returned k.
PoolAfter(k, value) ==
  [c |-> k.c,
   first |-> [pool.first EXCEPT ![value] = IF @ = -1 THEN k.ret ELSE @],
   last |-> [value |-> value, ret |-> k.ret,
             full |-> k.c.asserts > pool.c.asserts,
             again |-> pool.first[value] # -1]]

\* compilerAddConstant(compiler, value) is called and returns.
AddConstant(value) ==
  /\ pool.c.asserts < MaxOverflows
  /\ pool' = PoolAfter(compilerAddConstant(pool.c, value), value)

(***************************************************************************)
(* The scopes: compilerEnterBlock, compilerAddVariable, compilerExitBlock.  *)
(***************************************************************************)
\* The names of the locals.
ScopeNames == {"a", "b"}

\* The depth of the blocks entered, the number of locals added, and how far
\* below 0 the tracked stack_size is followed.
MaxScopeDepth == 2
MaxLocals == 2
MaxPops == 3

\* What the memory below variables[0] holds.
ScopeGarbage == {g \in Garbage : g.loop = NoLoop /\ g.char = NUL}

\* The Compiler c after the call op, before being the Compiler before the
\* call.
Scope(c, op, before) == [c |-> c, op |-> op, before |-> before]

\* The Compiler after compilerInit.
ScopeOf(garbage) ==
  Scope(compilerInit(SrcEmpty, garbage), "compilerInit",
        compilerInit(SrcEmpty, garbage))

ScopeStart == sc \in {ScopeOf(g) : g \in ScopeGarbage}

ScopeIdle == sc = ScopeOf(ZeroMemory)

\* compilerEnterBlock, or the scope_depth++ of compileFunction.
ScopeEnterBlock ==
  /\ sc.c.scope_depth < MaxScopeDepth
  /\ sc' = Scope(compilerEnterBlock(sc.c), "compilerEnterBlock", sc.c)

\* compilerAddVariable inside a function.
ScopeAddVariable(name) ==
  /\ sc.c.scope_depth > -1
  /\ sc.c.var_count \in 0..(MaxLocals - 1)
  /\ sc' = Scope(compilerAddVariable(sc.c, name).c, "compilerAddVariable",
                 sc.c)

\* compilerExitBlock; compileBlockBody calls it after compilerEnterBlock.
\* oobRead tells whether this call read below variables[0].
ScopeExitBlock ==
  /\ sc.c.scope_depth > -1
  /\ sc.c.stack_size > -MaxPops
  /\ sc' = Scope(compilerExitBlock([sc.c EXCEPT !.oobRead = FALSE]),
                 "compilerExitBlock", sc.c)

(***************************************************************************)
(* Scenario S7: on a new Map, mapSet(A), mapSet(B), mapRemoveKey(A),        *)
(* mapSet(C), for three keys whose hashes collide.  s7.slotA is the slot   *)
(* that holds A after the first call; s7.bad tells whether an ASSERT       *)
(* failed in one of the calls.                                             *)
(***************************************************************************)
\* The keys whose hash collides with the hash of the key 1 in a table of
\* the minimum capacity.
S7Keys == {k \in Keys : hashVar(k) % MIN_CAPACITY = hashVar(1) % MIN_CAPACITY}

S7Scenario(a, b, c) ==
  [a |-> a, b |-> b, c |-> c, m |-> newMap, step |-> 0, slotA |-> NullSlot,
   bad |-> FALSE]

S7Start ==
  \E a \in S7Keys : \E b \in S7Keys \ {a} : \E c \in S7Keys \ {a, b} :
     s7 = S7Scenario(a, b, c)

S7Idle == s7 = S7Scenario(0, 0, 0)

\* The slot of m that holds key, NullSlot when no slot does.
S7SlotOf(m, key) ==
  IF mapFindEntry(m, key).found THEN mapFindEntry(m, key).slot ELSE NullSlot

\* The scenario after a call that returned r = [m, bad].
S7After(r, step) ==
  [s7 EXCEPT !.m = r.m, !.step = step, !.bad = s7.bad \/ r.bad,
             !.slotA = IF step = 1 THEN S7SlotOf(r.m, s7.a) ELSE @]

S7InsertA ==
  /\ s7.step = 0
  /\ \E g \in GarbageEntry : s7' = S7After(mapSet(s7.m, s7.a, 101, g), 1)

S7InsertB ==
  /\ s7.step = 1
  /\ \E g \in GarbageEntry : s7' = S7After(mapSet(s7.m, s7.b, 102, g), 2)

S7RemoveA ==
  /\ s7.step = 2
  /\ \E g \in GarbageEntry : s7' = S7After(mapRemoveKey(s7.m, s7.a, g), 3)

S7InsertC ==
  /\ s7.step = 3
  /\ \E g \in GarbageEntry : s7' = S7After(mapSet(s7.m, s7.c, 101, g), 4)

(***************************************************************************)
(* Strings: _allocateString, newString and stringFormat of var.c.  A byte  *)
(* is a number, 0 the NUL byte.  A String is [length, data, hash], data    *)
(* holding length + 1 bytes.                                               *)
(***************************************************************************)
\* The exclusive or of two numbers below 2^bits.
RECURSIVE bitXor(_, _, _)
bitXor(a, b, bits) ==
  IF bits = 0 THEN 0
  ELSE ((a + b) % 2) + 2 * bitXor(a \div 2, b \div 2, bits - 1)

\* A 32-bit hash is held as its two 16-bit halves <<high, low>>.
\* One round of the 32-bit FNV-1a hash: the byte is xored into the low eight
\* bits, the result is multiplied by the FNV prime 16777619 = 2^24 + 403,
\* modulo 2^32.
fnv1aRound(hash, byte) ==
  LET low == (hash[2] - (hash[2] % 256)) + bitXor(hash[2] % 256, byte, 8)
  IN << (hash[1] * 403 + ((low * 403) \div 65536) + (low % 256) * 256) % 65536,
        (low * 403) % 65536 >>

\* The 32-bit FNV-1a hash of a sequence of bytes.
RECURSIVE fnv1aFrom(_, _, _)
fnv1aFrom(bytes, i, hash) ==
  IF i > Len(bytes) THEN hash
  ELSE fnv1aFrom(bytes, i + 1, fnv1aRound(hash, bytes[i]))

\* The offset basis is 2166136261 = 33052 * 2^16 + 40389.
FNV1a(bytes) == fnv1aFrom(bytes, 1, <<33052, 40389>>)

\* strlen: the number of bytes of data before its first NUL byte.
RECURSIVE strlenFrom(_, _)
strlenFrom(data, i) ==
  IF i > Len(data) \/ data[i] = 0 THEN i - 1 ELSE strlenFrom(data, i + 1)

strlen(data) == strlenFrom(data, 1)

\* utilHashString(string): the hash of the C string at the pointer it is
\* given, which ends at its first NUL byte.
utilHashString(data) == FNV1a(SubSeq(data, 1, strlen(data)))

\* _allocateString: length + 1 bytes that hold what the memory held, the
\* last one set to NUL; the hash is not set.
allocateString(length, memory) ==
  [length |-> length,
   data |-> [i \in 1..(length + 1) |->
               IF i = length + 1 THEN 0 ELSE memory],
   hash |-> <<memory, memory>>]

\* memcpy(dst, src, n).
memcpy(dst, at, src, n) ==
  [i \in DOMAIN dst |->
     IF i >= at /\ i < at + n THEN src[i - at + 1] ELSE dst[i]]

\* newString(vm, text, length).
newStringOf(text, length, memory) ==
  LET string == allocateString(length, memory)
      data == IF length # 0 THEN memcpy(string.data, 1, text, length)
              ELSE string.data
  IN [string EXCEPT !.data = data, !.hash = utilHashString(data)]

\* The first loop of stringFormat: total_length.  A format character is "$"
\* (a C string argument), "@" (a String argument) or itself.  The arguments
\* are Strings; the C string given for a "$" is the data of its argument.
RECURSIVE stringFormatLength(_, _, _, _)
stringFormatLength(fmt, args, i, a) ==
  IF i > Len(fmt) THEN 0
  ELSE IF fmt[i] = "$"
    THEN strlen(args[a].data) + stringFormatLength(fmt, args, i + 1, a + 1)
  ELSE IF fmt[i] = "@"
    THEN args[a].length + stringFormatLength(fmt, args, i + 1, a + 1)
  ELSE 1 + stringFormatLength(fmt, args, i + 1, a)

\* The number a format character that stands for itself is stored as.
charByte(ch) == IF ch = "a" THEN 97 ELSE 98

\* The second loop of stringFormat: the bytes written at buff.
RECURSIVE stringFormatBuild(_, _, _, _, _, _)
stringFormatBuild(fmt, args, i, a, data, buff) ==
  IF i > Len(fmt) THEN data
  ELSE IF fmt[i] = "$"
    THEN stringFormatBuild(fmt, args, i + 1, a + 1,
                           memcpy(data, buff, args[a].data,
                                  strlen(args[a].data)),
                           buff + strlen(args[a].data))
  ELSE IF fmt[i] = "@"
    THEN stringFormatBuild(fmt, args, i + 1, a + 1,
                           memcpy(data, buff, args[a].data, args[a].length),
                           buff + args[a].length)
  ELSE stringFormatBuild(fmt, args, i + 1, a,
                         [data EXCEPT ![buff] = charByte(fmt[i])], buff + 1)

\* stringFormat(vm, fmt, ...).
stringFormat(fmt, args, memory) ==
  LET result == allocateString(stringFormatLength(fmt, args, 1, 1), memory)
      data == stringFormatBuild(fmt, args, 1, 1, result.data, 1)
  IN [result EXCEPT !.data = data, !.hash = utilHashString(data)]

\* The bytes of the texts: the NUL byte, "a" and "b".
StrBytes == {0, 97, 98}

\* The texts newString is given, of MaxTextLen bytes at most.
MaxTextLen == 2
StrTexts == UNION {[1..n -> StrBytes] : n \in 0..MaxTextLen}

\* The formats stringFormat is given.
StrFormats == {<<"@">>, <<"$">>, <<"a", "@">>, <<"@", "@">>, <<"$", "b">>}

\* The number of arguments a format takes.
formatArgs(fmt) == Cardinality({i \in DOMAIN fmt : fmt[i] \in {"$", "@"}})

\* What the bytes of a fresh allocation hold.
StrMemory == {0, 97}

\* The number of Strings made in a run.
MaxStrings == 3

StrStart == strs = <<>>

StrIdle == StrStart

\* newString(vm, text, length) with length the number of bytes of text.
NewString(text, memory) ==
  /\ Len(strs) < MaxStrings
  /\ strs' = Append(strs, newStringOf(text, Len(text), memory))

\* stringFormat(vm, fmt, ...) with Strings made before as arguments.
StringFormat(fmt, args, memory) ==
  /\ Len(strs) < MaxStrings
  /\ strs' = Append(strs, stringFormat(fmt, [i \in DOMAIN args |-> strs[args[i]]],
                                      memory))

(***************************************************************************)
(* The specifications.                                                     *)
(***************************************************************************)
\* The variables each machine leaves alone.
notMapVars == <<gcVars, rootVars, compileVars, constVars, scopeVars, s7Vars, strVars>>
notGcVars == <<mapVars, rootVars, compileVars, constVars, scopeVars, s7Vars, strVars>>
notRootVars == <<mapVars, gcVars, compileVars, constVars, scopeVars, s7Vars, strVars>>
notCompileVars == <<mapVars, gcVars, rootVars, constVars, scopeVars, s7Vars, strVars>>
notConstVars == <<mapVars, gcVars, rootVars, compileVars, scopeVars, s7Vars, strVars>>
notScopeVars == <<mapVars, gcVars, rootVars, compileVars, constVars, s7Vars, strVars>>
notS7Vars == <<mapVars, gcVars, rootVars, compileVars, constVars, scopeVars, strVars>>
notStrVars == <<mapVars, gcVars, rootVars, compileVars, constVars, scopeVars, s7Vars>>

MapInit ==
  MapStart /\ GcIdle /\ RootIdle /\ CompileIdle /\ ConstIdle /\ ScopeIdle /\ S7Idle /\ StrIdle

MapNext ==
  \/ MapFill /\ UNCHANGED notMapVars
  \/ \E k \in Keys, v \in Vals : MapSet(k, v) /\ UNCHANGED notMapVars
  \/ \E k \in Keys : MapGet(k) /\ UNCHANGED notMapVars
  \/ \E k \in Keys : MapRemoveKey(k) /\ UNCHANGED notMapVars
  \/ MapClear /\ UNCHANGED notMapVars

SpecMap == MapInit /\ [][MapNext]_vars

GcInit ==
  GcStart /\ MapIdle /\ RootIdle /\ CompileIdle /\ ConstIdle /\ ScopeIdle /\ S7Idle /\ StrIdle

GcNext ==
  \/ \E o \in GcObjects : GrayRoot(o) /\ UNCHANGED notGcVars
  \/ BlackenObjects /\ UNCHANGED notGcVars

SpecGC == GcInit /\ [][GcNext]_vars

RootInit ==
  RootStart /\ MapIdle /\ GcIdle /\ CompileIdle /\ ConstIdle /\ ScopeIdle /\ S7Idle /\ StrIdle

RootNext ==
  \/ \E op \in RootOps : RootCall(op) /\ UNCHANGED notRootVars
  \/ RootAllocate(TRUE) /\ UNCHANGED notRootVars
  \/ RootAllocate(FALSE) /\ UNCHANGED notRootVars
  \/ RootReturn /\ UNCHANGED notRootVars

SpecRoot == RootInit /\ [][RootNext]_vars

CompileInit ==
  CompileStart /\ MapIdle /\ GcIdle /\ RootIdle /\ ConstIdle /\ ScopeIdle /\ S7Idle /\ StrIdle

CompileNext ==
  \/ \E source \in Sources, garbage \in Garbage, debug \in BOOLEAN,
          config \in Configs :
       CompileSource(source, garbage, debug, config)
       /\ UNCHANGED notCompileVars
  \/ CompileEOF /\ UNCHANGED notCompileVars
  \/ CompileNative /\ UNCHANGED notCompileVars
  \/ CompileDef /\ UNCHANGED notCompileVars
  \/ CompileImport /\ UNCHANGED notCompileVars
  \/ CompileStatement /\ UNCHANGED notCompileVars

SpecCompile == CompileInit /\ [][CompileNext]_vars

(***************************************************************************)
(* Expressions of two operators: compileSource run on `1 op1 2 op2 3` and  *)
(* on `u 1 op 2`, for every pair of operators.                             *)
(***************************************************************************)
\* The characters the lexer turns into the operator token op.
OperatorText(op) ==
  CASE op = "TK_DOTDOT" -> <<".", ".">> [] op = "TK_PERCENT" -> <<"%">>
    [] op = "TK_AMP" -> <<"&">> [] op = "TK_PIPE" -> <<"|">>
    [] op = "TK_CARET" -> <<"^">> [] op = "TK_PLUS" -> <<"+">>
    [] op = "TK_MINUS" -> <<"-">> [] op = "TK_STAR" -> <<"*">>
    [] op = "TK_FSLASH" -> <<"/">> [] op = "TK_GT" -> <<">">>
    [] op = "TK_LT" -> <<"<">> [] op = "TK_EQEQ" -> <<"=", "=">>
    [] op = "TK_NOTEQ" -> <<"!", "=">> [] op = "TK_GTEQ" -> <<">", "=">>
    [] op = "TK_LTEQ" -> <<"<", "=">> [] op = "TK_SRIGHT" -> <<">", ">">>
    [] op = "TK_SLEFT" -> <<"<", "<">> [] op = "TK_IS" -> <<"i", "s">>
    [] op = "TK_IN" -> <<"i", "n">> [] op = "TK_AND" -> <<"a", "n", "d">>
    [] op = "TK_OR" -> <<"o", "r">> [] op = "TK_TILD" -> <<"~">>
    [] op = "TK_NOT" -> <<"n", "o", "t">>

\* The token types whose rule has exprUnaryOp as its prefix.
UnaryOpTokens == {"TK_TILD", "TK_MINUS", "TK_NOT"}

\* 1 op1 2 op2 3
BinarySource(op1, op2) ==
  <<"1", " ">> \o OperatorText(op1) \o <<" ", "2", " ">>
    \o OperatorText(op2) \o <<" ", "3", NUL>>

\* u 1 op 2
PrefixSource(u, op) ==
  OperatorText(u) \o <<" ", "1", " ">> \o OperatorText(op)
    \o <<" ", "2", NUL>>

ExprInit ==
  CompileStart /\ MapIdle /\ GcIdle /\ RootIdle /\ ConstIdle /\ ScopeIdle /\ S7Idle /\ StrIdle

ExprNext ==
  \/ \E op1 \in BinaryOpTokens, op2 \in BinaryOpTokens, config \in Configs :
       CompileSource(BinarySource(op1, op2), ZeroMemory, FALSE, config)
       /\ UNCHANGED notCompileVars
  \/ \E u \in UnaryOpTokens, op \in BinaryOpTokens, config \in Configs :
       CompileSource(PrefixSource(u, op), ZeroMemory, FALSE, config)
       /\ UNCHANGED notCompileVars
  \/ CompileStatement /\ UNCHANGED notCompileVars
  \/ CompileEOF /\ UNCHANGED notCompileVars

SpecExpr == ExprInit /\ [][ExprNext]_vars

ConstInit ==
  ConstStart /\ MapIdle /\ GcIdle /\ RootIdle /\ CompileIdle /\ ScopeIdle /\ S7Idle /\ StrIdle

ConstNext ==
  \E value \in ConstValues : AddConstant(value) /\ UNCHANGED notConstVars

SpecConst == ConstInit /\ [][ConstNext]_vars

ScopeInit ==
  ScopeStart /\ MapIdle /\ GcIdle /\ RootIdle /\ CompileIdle /\ ConstIdle /\ S7Idle /\ StrIdle

ScopeNext ==
  \/ ScopeEnterBlock /\ UNCHANGED notScopeVars
  \/ \E name \in ScopeNames : ScopeAddVariable(name) /\ UNCHANGED notScopeVars
  \/ ScopeExitBlock /\ UNCHANGED notScopeVars

SpecScope == ScopeInit /\ [][ScopeNext]_vars

S7Init ==
  S7Start /\ MapIdle /\ GcIdle /\ RootIdle /\ CompileIdle /\ ConstIdle /\ ScopeIdle /\ StrIdle

S7Next ==
  \/ S7InsertA /\ UNCHANGED notS7Vars
  \/ S7InsertB /\ UNCHANGED notS7Vars
  \/ S7RemoveA /\ UNCHANGED notS7Vars
  \/ S7InsertC /\ UNCHANGED notS7Vars

SpecS7 == S7Init /\ [][S7Next]_vars

StrInit ==
  StrStart /\ MapIdle /\ GcIdle /\ RootIdle /\ CompileIdle /\ ConstIdle /\ ScopeIdle /\ S7Idle

StrNext ==
  \/ \E text \in StrTexts, memory \in StrMemory :
       NewString(text, memory) /\ UNCHANGED notStrVars
  \/ \E fmt \in StrFormats, memory \in StrMemory :
       \E args \in [1..formatArgs(fmt) -> DOMAIN strs] :
         StringFormat(fmt, args, memory) /\ UNCHANGED notStrVars

SpecStr == StrInit /\ [][StrNext]_vars

(***************************************************************************)
(* The claims.                                                             *)
(***************************************************************************)
\* C1: the Map behaves like the reference map: mapGet(k) returns the value
\* most recently set for k and undefined when k is not set, mapRemoveKey(k)
\* returns the stored value or null, and no ASSERT fails.
C1_MapRefinesReference ==
  /\ ~mapAssert
  /\ mapRet.ret = mapRet.expect
  /\ \A k \in Keys : mapGet(map, k) = [ret |-> ref[k], bad |-> FALSE]

\* C10: after any sequence of mapSet calls on a new Map, count is the
\* number of slots whose key is not undefined.
C10_CountIsLiveSlots ==
  onlySets => map.count = Cardinality(mapLiveSlots(map))

\* C2: once the roots are grayed and blackenObjects has emptied the gray
\* list, every object reachable from the roots is marked.
C2_MarkComplete ==
  GcDone => reachable(gcHeap, gcRoots) \subseteq gcMarked

\* C3: at every allocation inside an operation, every object the operation
\* allocated before and still uses afterwards is on the temp-roots stack or
\* reachable from a root; no operation touches an object a collection freed.
C3_RootingDiscipline ==
  /\ ~rt.dangling
  /\ rt.prog # <<>> =>
       (rootUsed(rt.locals, rt.prog, 1) \cap (3..rt.count)) \subseteq rootKept(rt)

\* The source of the scenario S6, without and with a newline after its
\* last line.
S6Sources == {SrcWhileBreak, SrcWhileBreakLine}

\* The bytecode of the scenario S6 when n is the address past the loop: the
\* condition, JUMP_IF_NOT n, JUMP n, JUMP 0.
S6Bytecode(n) ==
  <<OP_CONSTANT, 0, 0, OP_JUMP_IF_NOT, n \div 256, n % 256,
    OP_JUMP, n \div 256, n % 256, OP_JUMP, 0, 0>>

\* C4: when the source of the scenario S6 is compiled, the bytecode of the
\* body of the script is the evaluation of the condition, JUMP_IF_NOT to the
\* address past the loop, the JUMP of the break to the same address and the
\* JUMP to the start of the loop, the operands high byte first, and no other
\* instruction.
C4_WhileBreakBytecode ==
  (csPhase = "done" /\ cs.source \in S6Sources) =>
     cs.fns[cs.body].opcodes = S6Bytecode(Len(cs.fns[cs.body].opcodes))

\* The sources built from if, while, break and continue statements.
ControlSources ==
  {SrcWhileBreak, SrcWhileBreakLine, SrcWhileNoDo, SrcIf, SrcIfLast,
   SrcIfElse, SrcIfElif, SrcWhileContinue, SrcWhileLast, SrcNested,
   SrcIfOneLine, SrcWhileOneLine}

\* The instructions of the bytecode code from the index i on are whole, and
\* the operand of each JUMP and JUMP_IF_NOT among them, read high byte
\* first, is an address of code.
RECURSIVE jumpsInside(_, _)
jumpsInside(code, i) ==
  IF i > Len(code) THEN TRUE
  ELSE IF code[i] \in {OP_JUMP, OP_JUMP_IF_NOT}
    THEN /\ i + 2 <= Len(code)
         /\ code[i + 1] * 256 + code[i + 2] \in 0..(Len(code) - 1)
         /\ jumpsInside(code, i + 3)
  ELSE jumpsInside(code, i + 1 + opcode_info(code[i]).params)

\* C5: after the compilation of a program of if, while, break and continue
\* statements, the operand of every JUMP and JUMP_IF_NOT of every function
\* is two bytes, high byte first, whose value is in [0, count) of the
\* bytecode of the function.
C5_JumpOperandsInside ==
  (csPhase = "done" /\ cs.source \in ControlSources) =>
     \A f \in DOMAIN cs.fns :
        ~cs.fns[f].is_native => jumpsInside(cs.fns[f].opcodes, 1)

\* The maximum of the sums of the stack deltas of the prefixes of the
\* opcodes emitted from the index i on, sum being the sum before i and max
\* the maximum so far.
RECURSIVE maxPrefixSum(_, _, _, _)
maxPrefixSum(emitted, i, sum, max) ==
  IF i > Len(emitted) THEN max
  ELSE LET next == sum + opcode_info(emitted[i]).stack
       IN maxPrefixSum(emitted, i + 1, next, IF next > max THEN next ELSE max)

\* C7: the stack_size of every function of a compiled source is the maximum
\* over the prefixes of the opcodes emitted into the function of the sum of
\* their stack deltas, counted from 0 at the first opcode.
C7_StackSizeIsMaxPrefixSum ==
  csPhase = "done" =>
     \A f \in DOMAIN cs.fns :
        ~cs.fns[f].is_native =>
           cs.fns[f].stack_size = maxPrefixSum(cs.fns[f].emitted, 1, 0, 0)

\* The sources that are def and native declarations.
DeclarationSources ==
  {SrcTwoDefs, SrcSameName, SrcNatives, SrcNativeDef, SrcParams, SrcDefs,
   SrcDefOneLine}

\* C9: after def and native declarations are compiled into a Script, every
\* Function whose owner is the Script is exactly once in the functions of
\* the Script, and function_names holds its name at the same index.
C9_FunctionsListedOnce ==
  (csPhase \in {"compiling", "done"} /\ cs.source \in DeclarationSources) =>
     \A f \in DOMAIN cs.fns :
        cs.fns[f].owner = 1 =>
           LET at == {i \in DOMAIN cs.functions : cs.functions[i] = f}
           IN /\ Cardinality(at) = 1
              /\ \A i \in at : /\ i \in DOMAIN cs.function_names
                               /\ cs.function_names[i] = cs.fns[f].name

\* The entries of the literal buffer.
poolEntries == {pool.c.literals[i] : i \in DOMAIN pool.c.literals}

\* The indices of the literal buffer whose entry is the same as value.
poolIndices(value) ==
  {i \in DOMAIN pool.c.literals : isValuesSame(pool.c.literals[i], value)}

\* C6 as it is stated: after compilerAddConstant is called for a value,
\* exactly one entry of the literal buffer is the same as the value.
C6_OneEntryAfterEveryCall ==
  pool.last # NoCall => Cardinality(poolIndices(pool.last.value)) = 1

\* What C6 states of the last call, at being the indices of the entries that
\* are the same as its value.
poolLastCall(at) ==
  /\ pool.last.ret = pool.first[pool.last.value]
  /\ ~pool.last.full => at = {pool.last.ret + 1}
  /\ pool.last.full => Len(pool.c.literals) = MAX_CONSTANTS /\ at = {}

\* C6: no two entries of the literal buffer are the same (the entries are as
\* many as the values among them), the buffer never holds more than
\* MAX_CONSTANTS entries, every call for a value returns what the first call
\* for it returned, and a call that reports no error leaves exactly one entry
\* that is the same as its value, at the index it returns; a call that
\* reports the error adds no entry.
C6_ConstantPooling ==
  /\ Cardinality(poolEntries) = Len(pool.c.literals)
  /\ Len(pool.c.literals) <= MAX_CONSTANTS
  /\ pool.last # NoCall => poolLastCall(poolIndices(pool.last.value))

\* C6 witness: a value the buffer holds is added again when the buffer holds
\* MAX_CONSTANTS entries, and the call returns the index of the first call.
C6_AddedAgain ==
  /\ pool.last.again
  /\ ~pool.last.full
  /\ Len(pool.c.literals) = MAX_CONSTANTS
  /\ pool.last.ret >= MAX_CONSTANTS - 2

\* The number of locals at the end of variables[0 .. n-1] whose depth is at
\* least depth.
RECURSIVE trailingLocals(_, _, _)
trailingLocals(variables, n, depth) ==
  IF n = 0 \/ variables[n].depth < depth THEN 0
  ELSE 1 + trailingLocals(variables, n - 1, depth)

\* C8: compilerExitBlock called with scope_depth > -1 removes the locals at
\* the end of the array whose depth is at least the depth exited and no
\* other, decreases stack_size by their number and scope_depth by one, and
\* reads no slot outside [0, var_count).
C8_ExitBlockRemovesTrailingLocals ==
  (sc.op = "compilerExitBlock" /\ sc.before.var_count >= 0) =>
     LET n == trailingLocals(sc.before.variables, sc.before.var_count,
                             sc.before.scope_depth)
     IN /\ sc.c.var_count = sc.before.var_count - n
        /\ sc.c.variables =
             SubSeq(sc.before.variables, 1, sc.before.var_count - n)
        /\ sc.c.stack_size = sc.before.stack_size - n
        /\ sc.c.scope_depth = sc.before.scope_depth - 1
        /\ ~sc.c.oobRead

\* The slots of the entries array of m.
mapSlots(m) == 0..(m.capacity - 1)

\* The slot i of m is an empty slot, or holds a key of the reference map r
\* with its value.
mapSlotEmpty(m, i) == m.entries[i] = Entry(VAR_UNDEFINED, VAR_FALSE)
mapSlotHolds(m, i, r) ==
  /\ m.entries[i].key \in DOMAIN r
  /\ r[m.entries[i].key] # VAR_UNDEFINED
  /\ r[m.entries[i].key] = m.entries[i].value

\* C11: in every state reached by mapSet, mapRemoveKey and mapClear from an
\* empty Map, a slot whose key is undefined has the value false or true; and
\* after a step that resized the entries array, every slot that holds no
\* re-inserted (or newly set) key is an empty slot.
C11_UndefinedSlotsEmptyOrTombstone ==
  /\ [](\A i \in mapSlots(map) :
          IS_UNDEF(map.entries[i].key) => IS_BOOL(map.entries[i].value))
  /\ [][(map'.capacity # map.capacity) =>
          \A i \in mapSlots(map') :
             mapSlotEmpty(map', i) \/ mapSlotHolds(map', i, ref')]_vars

\* C12: after every mapSet and every mapRemoveKey that failed no ASSERT, a
\* Map with capacity > 0 has count <= capacity * 75 / 100.
C12_LoadFactorCap ==
  (~mapAssert /\ map.capacity > 0) =>
     ~u32Greater(map.count, (map.capacity * MAP_LOAD_PERCENT) \div 100)

\* C13: scenario S7.  After mapSet(A), mapSet(B), mapRemoveKey(A), mapSet(C)
\* on a new Map, with A, B and C colliding, no ASSERT has failed, C is
\* stored in the slot A occupied, B is still found and count is 2.
C13_S7TombstoneReuse ==
  s7.step = 4 =>
     /\ ~s7.bad
     /\ s7.slotA \in mapSlots(s7.m)
     /\ s7.m.entries[s7.slotA] = Entry(s7.c, 101)
     /\ mapGet(s7.m, s7.b).ret = 102
     /\ s7.m.count = 2

\* The sources whose only statement is a break or a continue.
OutsideLoopSources == {SrcBreak, SrcContinue}

\* C14: when the only statement of a source is a break or a continue, so
\* that it is compiled while no loop is being compiled, a parse error is
\* reported and no byte is appended to the bytecode of the body function.
C14_BreakOutsideLoop ==
  (csPhase \in {"done", "aborted"} /\ cs.source \in OutsideLoopSources) =>
     /\ cs.has_errors
     /\ Len(cs.errors) = 1
     /\ cs.fns[cs.body].opcodes = <<>>

\* The number of calls of the host callback fn among calls.
hostCallsOf(calls, fn) == Cardinality({i \in DOMAIN calls : calls[i] = fn})

\* Sources whose errors are parse errors: a break, a continue and a return
\* outside a loop or a function.
ParseErrorSources == {SrcBreak, SrcContinue, SrcReturnTop}

\* C15: every error that parseError passes to reportError sets has_errors
\* and is delivered to the error callback of the host exactly once, and
\* the compilation goes on after it instead of stopping.
C15_ParseErrorsDelivered ==
  (csPhase # "idle" /\ cs.source \in ParseErrorSources) =>
     /\ cs.errors # <<>> => cs.has_errors
     /\ hostCallsOf(cs.hostCalls, "error_fn") = Len(cs.errors)
     /\ csPhase # "aborted"

\* Sources whose first lexeme is a lex error: a string without its closing
\* quote, a string that ends after a backslash, a string with an invalid
\* escape, an invalid character.
LexErrorSources ==
  {SrcStringOpen, SrcStringEscapeEnd, SrcStringBadEscape, SrcInvalid}

\* C16: when the first lexeme of the source is a lex error, the token
\* lexToken makes of it is a TK_ERROR token and has_errors is set.  The
\* first token is parser.current as long as parser.previous is the token
\* parserInit made, whose start is NULL.
C16_LexErrorGivesErrorToken ==
  (/\ csPhase # "idle"
   /\ cs.source \in LexErrorSources
   /\ cs.previous.start = NULL) =>
     cs.current.type = "TK_ERROR" /\ cs.has_errors

\* C17: compileSource, once called on a NUL-terminated source, does not stop
\* before its end, and at its end TK_EOF is the current token; TK_EOF, once
\* it is the current token, stays the current token; and every turn of the
\* top-level loop moves the current token forward in the source or is the
\* last turn.
C17_CompileTerminatesAtEOF ==
  /\ [](csPhase \in {"idle", "compiling", "done"})
  /\ [](csPhase = "done" => cs.current.type = "TK_EOF")
  /\ [][(csPhase # "idle" /\ cs.current.type = "TK_EOF") =>
          cs'.current.type = "TK_EOF"]_vars
  /\ [][(csPhase = "compiling" /\ csPhase' = "compiling") =>
          cs'.current.start > cs.current.start]_vars

\* compileSource has stopped: it returned, or the program ended inside it.
compileStopped == csPhase \in {"done", "crashed", "aborted"}

\* C18: in every run of compileSource the loader callback is called exactly
\* once and first; the load-done callback, when the host gave one, is called
\* exactly once, last, with TK_EOF reached, whether or not has_errors is set,
\* and not before the run ends; vm->compiler is non-null only while the run
\* is between the two.
C18_HostCallbacksOnce ==
  csPhase # "idle" =>
    /\ hostCallsOf(cs.hostCalls, "load_script_fn") = 1
    /\ cs.hostCalls[1] = "load_script_fn"
    /\ hostCallsOf(cs.hostCalls, "load_script_done_fn") =
         IF compileStopped /\ cs.config.load_script_done_fn # NULL
           THEN 1 ELSE 0
    /\ (compileStopped /\ cs.config.load_script_done_fn # NULL) =>
         /\ cs.hostCalls[Len(cs.hostCalls)] = "load_script_done_fn"
         /\ cs.current.type = "TK_EOF"
    /\ (cs.vm_compiler # NULL) <=> (csPhase = "compiling")

\* C19: whenever control is in the top-level loop of compileSource, after a
\* def as well as after a native declaration, the function that receives the
\* emitted bytes is script.body, and no byte is emitted into no function.
C19_TopLevelEmitsIntoBody ==
  csPhase # "idle" =>
    /\ ~cs.nullDeref
    /\ csPhase \in {"compiling", "done"} => cs.function = cs.body

\* C20: after any number of lexToken calls on a NUL-terminated source the
\* current-character pointer of the lexer is at or before the terminating
\* NUL, which is the last character of the source.
C20_LexerStaysInSource ==
  csPhase # "idle" => cs.current_char <= Len(cs.source)

\* C21: every String made by newString or stringFormat has the NUL byte at
\* data[length], and its hash is the string hash of exactly its first length
\* bytes, embedded NUL bytes included.
C21_StringNulAndHash ==
  \A i \in DOMAIN strs :
    /\ strs[i].data[strs[i].length + 1] = 0
    /\ strs[i].hash = FNV1a(SubSeq(strs[i].data, 1, strs[i].length))

\* The bytecode code from the index i on is the opcodes emitted from the
\* k-th on, each followed by as many operand bytes as opcode_info gives it.
RECURSIVE instructionsWhole(_, _, _, _)
instructionsWhole(code, emitted, i, k) ==
  IF k > Len(emitted) THEN i = Len(code) + 1
  ELSE /\ i <= Len(code)
       /\ code[i] = emitted[k]
       /\ instructionsWhole(code, emitted,
                            i + 1 + opcode_info(emitted[k]).params, k + 1)

\* C22: in the bytecode of every function every emitted opcode, JUMP and
\* JUMP_IF_NOT with a patched target included, is followed by exactly its
\* operand bytes, two for a jump, so that no patch has overwritten an opcode;
\* and no patch has written outside the bytecode.
C22_PatchKeepsInstructions ==
  (csPhase \in {"compiling", "done"} /\ cs.source \in ControlSources) =>
     /\ ~cs.oobWrite
     /\ \A f \in DOMAIN cs.fns :
          ~cs.fns[f].is_native =>
             instructionsWhole(cs.fns[f].opcodes, cs.fns[f].emitted, 1, 1)

\* The sources that are valid def, if and while constructs closed by end.
EndSources ==
  {SrcWhileBreak, SrcWhileBreakLine, SrcWhileNoDo, SrcIf, SrcIfLast,
   SrcWhileContinue, SrcWhileLast, SrcNested, SrcTwoDefs}

\* C23: compiling a valid def, if or while construct closed by end reports
\* no parse error; end (and do) is consumed by its construct, so that at the
\* end of the compilation every construct was compiled once and nothing was
\* emitted for an end: for the nested def the body of the script is empty.
C23_EndClosesConstruct ==
  (csPhase # "idle" /\ cs.source \in EndSources) =>
     /\ cs.errors = <<>>
     /\ ~cs.has_errors
     /\ (csPhase = "done" /\ cs.source = SrcNested) =>
           cs.fns[cs.body].opcodes = <<>>

\* The sources in which a statement is followed on its line by another
\* statement, with no `;` between them.
NoTerminatorSources == {SrcTwoOnLine, SrcWhileOneLine}

\* C24: a statement that is followed neither by `;`, nor by a newline, nor
\* by the end of the input is reported as a parse error: the compilation of
\* two statements on one line with nothing between them has reported an
\* error when it ends.
C24_MissingTerminatorReported ==
  (csPhase = "done" /\ cs.source \in NoTerminatorSources) =>
     cs.has_errors /\ cs.errors # <<>>

\* The sources with a return that is in the body of no def.
ReturnOutsideSources == {SrcReturnTop, SrcIfReturn}

\* C25: a return statement that is in the body of no def function, one in
\* an if block at the top level of the script included, is reported as a
\* parse error and no RETURN instruction is emitted for it.
C25_ReturnOutsideFunction ==
  (csPhase = "done" /\ cs.source \in ReturnOutsideSources) =>
     /\ \E i \in DOMAIN cs.errors :
          cs.errors[i][1] = "Invalid 'return' outside a function."
     /\ \A i \in DOMAIN cs.fns[cs.body].emitted :
          cs.fns[cs.body].emitted[i] # OP_RETURN

\* C26: once the parameter list of `def f(a, a)` is compiled, the parameter
\* is recorded as a local of the function (compileFunction leaves the
\* parameter scope without removing a variable, so it stays recorded), and
\* the second `a` is reported as a parse error.
C26_ParametersRecorded ==
  (csPhase \in {"compiling", "done"} /\ cs.source = SrcParams
     /\ Len(cs.functions) > 0) =>
     /\ cs.var_count > 0
     /\ \E i \in DOMAIN cs.errors :
          cs.errors[i][1] = "Multiple definition of a parameter"

\* The index the last call of compilerAddConstant returned is an index of
\* the literal buffer, and the entry there is the same as the value of the
\* call.
poolLastLoads ==
  /\ pool.last.ret >= 0
  /\ pool.last.ret < Len(pool.c.literals)
  /\ isValuesSame(pool.c.literals[pool.last.ret + 1], pool.last.value)

\* C27 as it is stated: after every call compilerAddConstant(v), a call
\* on a full literal buffer included, the returned index is an index of the
\* buffer and the entry there is the same as v.
C27_IndexLoadsValueAlways ==
  pool.last # NoCall => poolLastLoads

\* C27: after a call compilerAddConstant(v) that reports no error the
\* returned index is an index of the literal buffer and the entry there is
\* the same as v; a call that reports the error was made on a buffer of
\* MAX_CONSTANTS entries none of which is v, sets has_errors, and returns
\* the index of the last entry.
C27_IndexLoadsValue ==
  pool.last # NoCall =>
    /\ ~pool.last.full => poolLastLoads
    /\ pool.last.full =>
         /\ Len(pool.c.literals) = MAX_CONSTANTS
         /\ poolIndices(pool.last.value) = {}
         /\ pool.c.has_errors
         /\ pool.last.ret = MAX_CONSTANTS - 1

\* C27 witness: a call has written the last free entry of the literal buffer
\* and returned its index.
C27_LastEntryWritten ==
  /\ pool.last # NoCall
  /\ ~pool.last.full
  /\ ~pool.last.again
  /\ pool.last.ret = MAX_CONSTANTS - 1
  /\ poolLastLoads

\* The values of the keyword literals of a source.
keywordValues(source) ==
  IF source = SrcLiterals THEN {VAR_NULL, VAR_TRUE, VAR_FALSE}
  ELSE IF source = SrcTrue THEN {VAR_TRUE}
  ELSE {}

\* C28: the keyword literals null, true and false compile without a parse
\* error to CONSTANT instructions of pooled constants null, true and false:
\* once a source is compiled, the value of each of its keyword literals is
\* among the literals of the Script, whatever NUMBER or STRING token was
\* lexed before the keyword.
C28_KeywordLiterals ==
  (csPhase = "done" /\ cs.source \in {SrcLiterals, SrcTrue}) =>
     /\ cs.errors = <<>>
     /\ keywordValues(cs.source)
           \subseteq {cs.literals[i] : i \in DOMAIN cs.literals}

C30_InfixNeverNull ==
  csPhase # "idle" => ~cs.nullCall

====
